---- MODULE Spec2Model ----
(***************************************************************************)
(* Bidirectional synchronisation of shelter reports between an edge node   *)
(* and the central node.                                                   *)
(*                                                                         *)
(*   backend/src/db/database.ts                 syncRepository (SQL)       *)
(*   backend/src/repositories/shelterRepository.ts  the /api/sync routes   *)
(*   frontend/src/lib/sync-service.ts           SyncService (client)       *)
(*                                                                         *)
(* A node's relational store is one record `db` with the tables the sync   *)
(* code reads and writes.  Route handlers are modelled step by step at     *)
(* their await points; repository functions are operators on `db`.         *)
(***************************************************************************)
EXTENDS Integers, Sequences, FiniteSets, TLC

VARIABLES
    edge,      \* store of the edge (local) node
    center,    \* store of the central (production) node
    rx,        \* a caller of POST /api/sync/receive submitting one batch twice
    push,      \* invocations of POST /api/sync/execute on the edge
    pull,      \* invocation of POST /api/sync/pull/execute on the edge
    client,    \* the browser's SyncService singleton
    now        \* wall clock (CURRENT_TIMESTAMP, new Date())

vars == <<edge, center, rx, push, pull, client, now>>

(***************************************************************************)
(* Bounds of the model.                                                    *)
(***************************************************************************)
MaxBatchPosts == 2      \* longest posts array of a submitted batch

(***************************************************************************)
(* Tables.  A row keeps the columns the sync code depends on.              *)
(***************************************************************************)
NoShelter == 0          \* `undefined` of postIdToShelterId.get

SeedShelters == {1, 2}  \* rows of the shelters table

EmptyDb ==
    [ shelters  |-> SeedShelters,
      posts     |-> {},
      comments  |-> {},
      tracks    |-> {},
      media     |-> {},
      sync_logs |-> << >>,
      cursor    |-> 0,
      bucket    |-> {} ]       \* keys of the node's object store (ASSET_BUCKET)

Ids(rows) == { r.id : r \in rows }

HasId(rows, id) == \E r \in rows : r.id = id

SeqToSet(s) == { s[i] : i \in 1..Len(s) }

(***************************************************************************)
(* sync_logs                                                               *)
(***************************************************************************)
ZeroCounts == [posts |-> 0, media |-> 0, comments |-> 0, tracks |-> 0]

\* INSERT INTO sync_logs (...) VALUES (?, ?, 'in_progress', ?): the new row's
\* id is its position.  The shelter_id column references shelters(id).
createSyncLogThrows(db, shelterId) ==
    shelterId # NoShelter /\ shelterId \notin db.shelters

createSyncLog(db, syncType, shelterId) ==
    [db EXCEPT !.sync_logs =
        Append(@, [ sync_type  |-> syncType,
                    shelter_id |-> shelterId,
                    status     |-> "in_progress",
                    error      |-> "",
                    counts     |-> ZeroCounts,
                    updates    |-> 0 ])]

lastRowId(db) == Len(db.sync_logs)

completeSyncLog(db, logId, counts) ==
    [db EXCEPT !.sync_logs[logId] =
        [@ EXCEPT !.status = "completed", !.counts = counts,
                  !.updates = @ + 1]]

failSyncLog(db, logId, errorMessage) ==
    [db EXCEPT !.sync_logs[logId] =
        [@ EXCEPT !.status = "failed", !.error = errorMessage,
                  !.updates = @ + 1]]

(***************************************************************************)
(* Reading and marking the unsynced rows (the origin side of a push).      *)
(***************************************************************************)
\* the columns a fetchUnsynced* SELECT lists: the row without is_synced
Columns(row) == [f \in DOMAIN row \ {"is_synced"} |-> row[f]]

\* ORDER BY created_at ASC
RECURSIVE orderByCreatedAt(_)
orderByCreatedAt(rows) ==
    IF rows = {} THEN << >>
    ELSE LET first == CHOOSE r \in rows :
                         \A q \in rows : r.created_at <= q.created_at
         IN <<first>> \o orderByCreatedAt(rows \ {first})

fetchUnsynced(rows) ==
    orderByCreatedAt({ Columns(r) : r \in { q \in rows : ~q.is_synced } })

fetchUnsyncedPosts(db) == fetchUnsynced(db.posts)

fetchUnsyncedComments(db) == fetchUnsynced(db.comments)

fetchUnsyncedLocationTracks(db) == fetchUnsynced(db.tracks)

\* WHERE post_id IN (...): synced or not
fetchMediaByPostIds(db, postIds) ==
    orderByCreatedAt({ Columns(r) : r \in { q \in db.media : q.post_id \in postIds } })

\* UPDATE ... SET is_synced = 1, updated_at = CURRENT_TIMESTAMP WHERE id IN (...)
markAsSynced(rows, ids, t) ==
    { IF r.id \in ids THEN [r EXCEPT !.is_synced = TRUE, !.updated_at = t] ELSE r
        : r \in rows }

markPostsAsSynced(db, postIds, t) ==
    [db EXCEPT !.posts = markAsSynced(@, postIds, t)]

markCommentsAsSynced(db, commentIds, t) ==
    [db EXCEPT !.comments = markAsSynced(@, commentIds, t)]

markLocationTracksAsSynced(db, trackIds, t) ==
    [db EXCEPT !.tracks = markAsSynced(@, trackIds, t)]

\* GET /api/sync/status: the unsynced counts
getSyncStats(db) ==
    LET n(rows) == Cardinality({ r \in rows : ~r.is_synced }) IN
    [ unsyncedPosts          |-> n(db.posts),
      unsyncedComments       |-> n(db.comments),
      unsyncedLocationTracks |-> n(db.tracks),
      totalUnsynced          |-> n(db.posts) + n(db.comments) + n(db.tracks) ]

(***************************************************************************)
(* Insert-if-absent.  `bad` is the set of record ids whose INSERT the      *)
(* store rejects (a column constraint of the schema, or a store fault).    *)
(* Each operator answers [db, inserted, threw].                            *)
(***************************************************************************)
Skipped(db)  == [db |-> db, inserted |-> FALSE, threw |-> FALSE]
Threw(db)    == [db |-> db, inserted |-> FALSE, threw |-> TRUE]
Inserted(db) == [db |-> db, inserted |-> TRUE,  threw |-> FALSE]

\* Faulty variant: a post that exists is overwritten and counted.
insertPostOrReplace(db, post, bad) ==
    IF post.id \in bad \/ post.shelter_id \notin db.shelters THEN Threw(db)
    ELSE Inserted([db EXCEPT !.posts = { r \in @ : r.id # post.id } \cup
            {[id |-> post.id, shelter_id |-> post.shelter_id,
              created_at |-> post.created_at, updated_at |-> post.updated_at,
              is_synced |-> TRUE]}])

insertPostIfNotExists(db, post, bad) ==
    IF HasId(db.posts, post.id) THEN Skipped(db)
    ELSE IF post.id \in bad \/ post.shelter_id \notin db.shelters THEN Threw(db)
    ELSE Inserted([db EXCEPT !.posts = @ \cup
            {[id |-> post.id, shelter_id |-> post.shelter_id,
              created_at |-> post.created_at, updated_at |-> post.updated_at,
              is_synced |-> TRUE]}])

\* Faulty variant: the existence check is left out and the row is written again.
insertCommentWithoutCheck(db, comment, bad) ==
    IF comment.id \in bad \/ ~HasId(db.posts, comment.post_id) THEN Threw(db)
    ELSE Inserted([db EXCEPT !.comments = @ \cup
            {[id |-> comment.id, post_id |-> comment.post_id,
              created_at |-> comment.created_at, updated_at |-> comment.updated_at,
              is_synced |-> TRUE]}])

insertCommentIfNotExists(db, comment, bad) ==
    IF HasId(db.comments, comment.id) THEN Skipped(db)
    ELSE IF comment.id \in bad \/ ~HasId(db.posts, comment.post_id) THEN Threw(db)
    ELSE Inserted([db EXCEPT !.comments = @ \cup
            {[id |-> comment.id, post_id |-> comment.post_id,
              created_at |-> comment.created_at, updated_at |-> comment.updated_at,
              is_synced |-> TRUE]}])

insertLocationTrackIfNotExists(db, track, bad) ==
    IF HasId(db.tracks, track.id) THEN Skipped(db)
    ELSE IF track.id \in bad \/ ~HasId(db.posts, track.post_id) THEN Threw(db)
    ELSE Inserted([db EXCEPT !.tracks = @ \cup
            {[id |-> track.id, post_id |-> track.post_id,
              created_at |-> track.created_at, updated_at |-> track.updated_at,
              is_synced |-> TRUE]}])

insertMediaIfNotExists(db, media, bad) ==
    IF HasId(db.media, media.id) THEN Skipped(db)
    ELSE IF ~HasId(db.posts, media.post_id) THEN Skipped(db)
    ELSE IF media.id \in bad THEN Threw(db)
    ELSE Inserted([db EXCEPT !.media = @ \cup
            {[id |-> media.id, post_id |-> media.post_id,
              created_at |-> media.created_at, updated_at |-> media.updated_at,
              is_synced |-> TRUE]}])

(***************************************************************************)
(* receiveAndInsertSyncData: posts, then media, comments and location      *)
(* tracks of one shelter group, in this order; the first INSERT that       *)
(* throws ends the group with success = false and the counts so far.       *)
(***************************************************************************)
Tag(kind, s) == [i \in 1..Len(s) |-> [kind |-> kind, rec |-> s[i]]]

insertOne(db, item, bad) ==
    CASE item.kind = "posts"    -> insertPostIfNotExists(db, item.rec, bad)
      [] item.kind = "media"    -> insertMediaIfNotExists(db, item.rec, bad)
      [] item.kind = "comments" -> insertCommentIfNotExists(db, item.rec, bad)
      [] item.kind = "tracks"   -> insertLocationTrackIfNotExists(db, item.rec, bad)

RECURSIVE insertAll(_, _, _, _, _)
insertAll(db, items, i, counts, bad) ==
    IF i > Len(items)
    THEN [db |-> db, success |-> TRUE, counts |-> counts]
    ELSE LET r == insertOne(db, items[i], bad) IN
         IF r.threw
         THEN [db |-> db, success |-> FALSE, counts |-> counts]
         ELSE insertAll(r.db, items, i + 1,
                        IF r.inserted
                        THEN [counts EXCEPT ![items[i].kind] = @ + 1]
                        ELSE counts,
                        bad)

insertOrder(data) ==
    Tag("posts", data.posts) \o Tag("media", data.media)
        \o Tag("comments", data.comments) \o Tag("tracks", data.locationTracks)

\* Faulty variant: the children of the group are written whatever became of
\* the posts, to a store that does not check their post reference.
receiveAndInsertUnchecked(db, data, bad) ==
    LET r == insertAll(db, Tag("posts", data.posts), 1, ZeroCounts, bad)
        rows(s) == { [id |-> x.id, post_id |-> x.post_id,
                      created_at |-> x.created_at, updated_at |-> x.updated_at,
                      is_synced |-> TRUE] : x \in SeqToSet(s) }
    IN [db |-> [r.db EXCEPT !.media = @ \cup rows(data.media),
                            !.comments = @ \cup rows(data.comments),
                            !.tracks = @ \cup rows(data.locationTracks)],
        success |-> r.success, counts |-> r.counts]

receiveAndInsertSyncData(db, data, bad) ==
    insertAll(db, insertOrder(data), 1, ZeroCounts, bad)

(***************************************************************************)
(* groupDataByShelter: a JS Map from shelter id to the group's data; the   *)
(* Map iterates in the order its keys were first set, so the result is a   *)
(* sequence of [shelterId, data].                                          *)
(***************************************************************************)
MaxOf(S) == CHOOSE x \in S : \A y \in S : y <= x

\* Faulty variant: the posts table is asked first.
postIdToShelterIdStoreFirst(db, data, postId) ==
    LET inBatch == { i \in 1..Len(data.posts) : data.posts[i].id = postId } IN
    IF HasId(db.posts, postId)
    THEN (CHOOSE r \in db.posts : r.id = postId).shelter_id
    ELSE IF inBatch # {} THEN data.posts[MaxOf(inBatch)].shelter_id
         ELSE NoShelter

\* postIdToShelterId: the batch's posts first (a later post of the same id
\* overwrites an earlier one), the destination's posts table for the rest.
postIdToShelterId(db, data, postId) ==
    LET inBatch == { i \in 1..Len(data.posts) : data.posts[i].id = postId } IN
    IF inBatch # {} THEN data.posts[MaxOf(inBatch)].shelter_id
    ELSE IF HasId(db.posts, postId)
         THEN (CHOOSE r \in db.posts : r.id = postId).shelter_id
         ELSE NoShelter

\* Faulty variant: a child whose post is not found gets a group of its own.
RECURSIVE firstSeenKeepsUnresolved(_, _, _)
firstSeenKeepsUnresolved(keys, i, acc) ==
    IF i > Len(keys) THEN acc
    ELSE firstSeenKeepsUnresolved(keys, i + 1,
                   IF keys[i] \in SeqToSet(acc)
                   THEN acc ELSE Append(acc, keys[i]))

RECURSIVE firstSeen(_, _, _)
firstSeen(keys, i, acc) ==
    IF i > Len(keys) THEN acc
    ELSE firstSeen(keys, i + 1,
                   IF keys[i] = NoShelter \/ keys[i] \in SeqToSet(acc)
                   THEN acc ELSE Append(acc, keys[i]))

groupKeys(db, data) ==
    LET ofPost(s) == [i \in 1..Len(s) |-> postIdToShelterId(db, data, s[i].post_id)]
    IN firstSeen([i \in 1..Len(data.posts) |-> data.posts[i].shelter_id]
                    \o ofPost(data.media) \o ofPost(data.comments)
                    \o ofPost(data.locationTracks),
                 1, << >>)

groupOf(db, data, shelterId) ==
    LET mine(r) == postIdToShelterId(db, data, r.post_id) = shelterId IN
    [ posts          |-> SelectSeq(data.posts, LAMBDA p : p.shelter_id = shelterId),
      media          |-> SelectSeq(data.media, mine),
      comments       |-> SelectSeq(data.comments, mine),
      locationTracks |-> SelectSeq(data.locationTracks, mine) ]

groupDataByShelter(db, data) ==
    LET keys == groupKeys(db, data) IN
    [i \in 1..Len(keys) |->
        [shelterId |-> keys[i], data |-> groupOf(db, data, keys[i])]]

(***************************************************************************)
(* POST /api/sync/receive                                                  *)
(***************************************************************************)
AddCounts(a, b) ==
    [posts |-> a.posts + b.posts, media |-> a.media + b.media,
     comments |-> a.comments + b.comments, tracks |-> a.tracks + b.tracks]

isEmptyBatch(data) ==
    Len(data.posts) = 0 /\ Len(data.comments) = 0
        /\ Len(data.locationTracks) = 0 /\ Len(data.media) = 0

\* One pass of the loop over groupedData.entries().
receiveGroup(st, group, bad) ==
    IF createSyncLogThrows(st.db, group.shelterId)
    THEN \* thrown before logId is set: the catch block records the failure
         [st EXCEPT
            !.shelterResults = Append(@, [shelterId |-> group.shelterId,
                success |-> FALSE, counts |-> ZeroCounts, logId |-> 0]),
            !.overallSuccess = FALSE]
    ELSE LET db1   == createSyncLog(st.db, "received", group.shelterId)
             logId == lastRowId(db1)
             r     == receiveAndInsertSyncData(db1, group.data, bad)
         IN IF ~r.success
            THEN [st EXCEPT
                    !.db = failSyncLog(r.db, logId, "insert"),
                    !.shelterResults = Append(@, [shelterId |-> group.shelterId,
                        success |-> FALSE, counts |-> r.counts, logId |-> logId]),
                    !.overallSuccess = FALSE]
            ELSE [st EXCEPT
                    !.db = completeSyncLog(r.db, logId, r.counts),
                    !.shelterResults = Append(@, [shelterId |-> group.shelterId,
                        success |-> TRUE, counts |-> r.counts, logId |-> logId]),
                    !.totals = AddCounts(@, r.counts)]

\* Faulty variant: the loop is left at the first shelter group that fails.
RECURSIVE receiveLoopUntilFailure(_, _, _, _)
receiveLoopUntilFailure(st, groups, i, bad) ==
    IF i > Len(groups) \/ ~st.overallSuccess THEN st
    ELSE receiveLoopUntilFailure(receiveGroup(st, groups[i], bad), groups, i + 1, bad)

RECURSIVE receiveLoop(_, _, _, _)
receiveLoop(st, groups, i, bad) ==
    IF i > Len(groups) THEN st
    ELSE receiveLoop(receiveGroup(st, groups[i], bad), groups, i + 1, bad)

\* Faulty variant: success is that of the last shelter group.
syncReceiveLastGroup(db, data, bad) ==
    IF isEmptyBatch(data)
    THEN [db |-> db,
          response |-> [success |-> TRUE, totals |-> ZeroCounts,
                        shelterResults |-> << >>]]
    ELSE LET st == receiveLoop([db |-> db, shelterResults |-> << >>,
                                totals |-> ZeroCounts, overallSuccess |-> TRUE],
                               groupDataByShelter(db, data), 1, bad)
             n == Len(st.shelterResults)
         IN [db |-> st.db,
             response |-> [success |-> IF n = 0 THEN TRUE
                                       ELSE st.shelterResults[n].success,
                           totals |-> st.totals,
                           shelterResults |-> st.shelterResults]]

\* The handler: [db, response].
syncReceive(db, data, bad) ==
    IF isEmptyBatch(data)
    THEN [db |-> db,
          response |-> [success |-> TRUE, totals |-> ZeroCounts,
                        shelterResults |-> << >>]]
    ELSE LET st == receiveLoop([db |-> db, shelterResults |-> << >>,
                                totals |-> ZeroCounts, overallSuccess |-> TRUE],
                               groupDataByShelter(db, data), 1, bad)
         IN [db |-> st.db,
             response |-> [success |-> st.overallSuccess, totals |-> st.totals,
                           shelterResults |-> st.shelterResults]]

(***************************************************************************)
(* SpecRecv: a caller submits one batch to POST /api/sync/receive, and     *)
(* then the same batch once more.  The batch is any request body: posts    *)
(* of known and unknown shelters, the same post id under two shelters,     *)
(* children of posts that are in the batch, in the store, or nowhere.      *)
(***************************************************************************)
P(id, shelterId) ==
    [id |-> id, shelter_id |-> shelterId, created_at |-> 0, updated_at |-> 0]

K(id, postId) ==
    [id |-> id, post_id |-> postId, created_at |-> 0, updated_at |-> 0]

Row(rec, synced) ==
    [f \in DOMAIN rec \cup {"is_synced"} |->
        IF f = "is_synced" THEN synced ELSE rec[f]]

SeqsUpTo(S, n) == UNION { [1..k -> S] : k \in 0..n }

RxPostRecs == { P("p1", 1), P("p2", 2), P("p2", 3), P("p1", 2) }

RxComments ==
    { << >>, <<K("c1", "p1")>>, <<K("c1", "p3")>>, <<K("c2", "p2")>>,
      <<K("c1", "p1"), K("c2", "p2")>>, <<K("c1", "p3"), K("c2", "p2")>> }

RxTracks == { << >>, <<K("t1", "p1")>>, <<K("t1", "p3")>> }

RxMedia == { << >>, <<K("m1", "p2")>>, <<K("m1", "p3")>> }

RxBatches ==
    [ posts          : SeqsUpTo(RxPostRecs, MaxBatchPosts),
      media          : RxMedia,
      comments       : RxComments,
      locationTracks : RxTracks ]

\* ids of the batch whose INSERT violates a column constraint
RxBad == { {}, {"p2"}, {"c1"}, {"m1"} }

RxStores ==
    { EmptyDb,
      [EmptyDb EXCEPT !.posts = {Row(P("p1", 1), FALSE)},
                      !.comments = {Row(K("c1", "p1"), FALSE)}],
      [EmptyDb EXCEPT !.posts = {Row(P("p3", 2), TRUE)}] }

Off == [pc |-> "off"]

RxInit ==
    /\ center \in RxStores
    /\ \E b \in RxBatches, bad \in RxBad :
          rx = [pc |-> "ready", batch |-> b, bad |-> bad, db0 |-> center,
                db1 |-> center, resp1 |-> << >>, resp2 |-> << >>]
    /\ edge = EmptyDb
    /\ push = << >>
    /\ pull = Off
    /\ client = Off
    /\ now = 0

ReceiveFirst ==
    /\ rx.pc = "ready"
    /\ LET r == syncReceive(center, rx.batch, rx.bad) IN
         /\ center' = r.db
         /\ rx' = [rx EXCEPT !.pc = "once", !.db1 = r.db, !.resp1 = r.response]
    /\ UNCHANGED <<edge, push, pull, client, now>>

ReceiveSecond ==
    /\ rx.pc = "once"
    /\ LET r == syncReceive(center, rx.batch, rx.bad) IN
         /\ center' = r.db
         /\ rx' = [rx EXCEPT !.pc = "twice", !.resp2 = r.response]
    /\ UNCHANGED <<edge, push, pull, client, now>>

RxNext == ReceiveFirst \/ ReceiveSecond

SpecRecv == RxInit /\ [][RxNext]_vars

Tables(db) == <<db.posts, db.comments, db.tracks, db.media>>

\* C4: receive is idempotent.  After the same batch has been submitted a
\* second time, the posts, comments, location tracks and media tables are
\* exactly as after the first submission, and the second response reports 0
\* for every synced count, in the totals and in every shelter result.
C4_ReceiveIdempotent ==
    rx.pc = "twice" =>
        /\ Tables(center) = Tables(rx.db1)
        /\ rx.resp2.totals = ZeroCounts
        /\ \A i \in 1..Len(rx.resp2.shelterResults) :
              rx.resp2.shelterResults[i].counts = ZeroCounts

\* The first submission inserted rows of two entity types and had a shelter
\* group that failed, and the batch has been submitted again.
C4_Witness ==
    /\ rx.pc = "twice"
    /\ rx.resp1.totals.posts > 0
    /\ rx.resp1.totals.comments > 0
    /\ ~rx.resp1.success
    /\ Len(rx.resp2.shelterResults) > 1

RxGroups == groupDataByShelter(rx.db0, rx.batch)

RxGroupIds(data) ==
    [ posts    |-> Ids(SeqToSet(data.posts)),
      media    |-> Ids(SeqToSet(data.media)),
      comments |-> Ids(SeqToSet(data.comments)),
      tracks   |-> Ids(SeqToSet(data.locationTracks)) ]

RECURSIVE SumCounts(_, _)
SumCounts(results, i) ==
    IF i > Len(results) THEN ZeroCounts
    ELSE AddCounts(results[i].counts, SumCounts(results, i + 1))

\* C5: shelter isolation in receive.  Every shelter group of the batch gets
\* its own result, in iteration order.  A group whose own records the store
\* accepts (its log row can be created and its insertion, run alone on the
\* store as it was, succeeds) is reported successful and all its records are
\* in the store afterwards, wherever a failing group stands in the order.
\* The rows inserted for any group, failed ones included, stay in the store,
\* and a group's SyncLog row is completed exactly when that group succeeded
\* and failed otherwise.
C5_ShelterIsolation ==
    rx.pc = "once" /\ ~isEmptyBatch(rx.batch) =>
        LET res == rx.resp1.shelterResults IN
        /\ Len(res) = Len(RxGroups)
        /\ \A i \in 1..Len(RxGroups) :
            LET g     == RxGroups[i]
                alone == receiveAndInsertSyncData(rx.db0, g.data, rx.bad)
                want  == RxGroupIds(g.data)
            IN /\ res[i].shelterId = g.shelterId
               /\ (alone.success /\ ~createSyncLogThrows(rx.db0, g.shelterId)) =>
                     /\ res[i].success
                     /\ want.posts \subseteq Ids(center.posts)
                     /\ want.media \subseteq Ids(center.media)
                     /\ want.comments \subseteq Ids(center.comments)
                     /\ want.tracks \subseteq Ids(center.tracks)
               /\ res[i].logId # 0 =>
                     center.sync_logs[res[i].logId].status =
                        (IF res[i].success THEN "completed" ELSE "failed")
               /\ res[i].logId = 0 => ~res[i].success
        /\ LET all == SumCounts(res, 1) IN
            /\ Cardinality(center.posts) = Cardinality(rx.db0.posts) + all.posts
            /\ Cardinality(center.media) = Cardinality(rx.db0.media) + all.media
            /\ Cardinality(center.comments)
                  = Cardinality(rx.db0.comments) + all.comments
            /\ Cardinality(center.tracks) = Cardinality(rx.db0.tracks) + all.tracks

\* A batch of three shelter groups where the first group failed after it had
\* inserted a row, and a later group was inserted in full.
C5_Witness ==
    /\ rx.pc = "once"
    /\ Len(rx.resp1.shelterResults) >= 2
    /\ ~rx.resp1.shelterResults[1].success
    /\ rx.resp1.shelterResults[1].counts.posts > 0
    /\ rx.resp1.shelterResults[2].success
    /\ rx.resp1.shelterResults[2].counts.posts > 0

(***************************************************************************)
(* SpecPush: the edge node creates reports and runs POST /api/sync/execute *)
(* against the central node.  Handler invocations may overlap: neither the *)
(* route nor its callers serialise them.                                   *)
(***************************************************************************)
MaxPushes == 2          \* invocations of POST /api/sync/execute

Pushers == 1..MaxPushes

\* What the edge's users create, in the order of the creation times: a post
\* of shelter 1 with one media row and one location track, a post of
\* shelter 2, and a comment on the first post.
EdgePosts ==
    { [id |-> "p1", shelter_id |-> 1, created_at |-> 1, updated_at |-> 1],
      [id |-> "p2", shelter_id |-> 2, created_at |-> 2, updated_at |-> 2] }

EdgeMedia ==
    { [id |-> "m1", post_id |-> "p1", created_at |-> 1, updated_at |-> 1] }

EdgeTracks ==
    { [id |-> "t1", post_id |-> "p1", created_at |-> 1, updated_at |-> 1] }

EdgeComments ==
    { [id |-> "c1", post_id |-> "p1", created_at |-> 3, updated_at |-> 3] }

CatalogueEnd ==
    MaxOf({ r.created_at : r \in EdgePosts \cup EdgeComments }) + 1

\* POST /posts: insertShelterPost writes the post, its media rows and its
\* location tracks, all with is_synced = 0.
insertShelterPost(db, post) ==
    [db EXCEPT
        !.posts  = @ \cup {Row(post, FALSE)},
        !.media  = @ \cup { Row(m, FALSE) : m \in { x \in EdgeMedia : x.post_id = post.id } },
        !.tracks = @ \cup { Row(t, FALSE) : t \in { x \in EdgeTracks : x.post_id = post.id } }]

\* POST /posts/:id/comments
createCommentForPost(db, comment) ==
    [db EXCEPT !.comments = @ \cup {Row(comment, FALSE)}]

CreatePost ==
    /\ \E post \in EdgePosts :
          /\ ~HasId(edge.posts, post.id)
          /\ \A q \in EdgePosts :
                q.created_at < post.created_at => HasId(edge.posts, q.id)
          /\ post.shelter_id \in edge.shelters
          /\ edge' = insertShelterPost(edge, post)
    /\ UNCHANGED <<center, rx, push, pull, client, now>>

CreateComment ==
    /\ \E comment \in EdgeComments :
          /\ ~HasId(edge.comments, comment.id)
          /\ HasId(edge.posts, comment.post_id)
          /\ \A q \in EdgePosts :
                q.created_at < comment.created_at => HasId(edge.posts, q.id)
          /\ edge' = createCommentForPost(edge, comment)
    /\ UNCHANGED <<center, rx, push, pull, client, now>>

IdleHandler ==
    [ pc |-> "idle", logId |-> 0, outcome |-> "",
      posts |-> << >>, comments |-> << >>, locationTracks |-> << >>,
      media |-> << >>, remote |-> << >> ]

PushInit ==
    /\ edge = EmptyDb
    /\ center = EmptyDb
    /\ push = [i \in Pushers |-> IdleHandler]
    /\ rx = Off
    /\ pull = Off
    /\ client = Off
    /\ now = CatalogueEnd

SeqIds(s) == { s[i].id : i \in 1..Len(s) }

BatchOf(h) ==
    [ posts |-> h.posts, comments |-> h.comments,
      locationTracks |-> h.locationTracks, media |-> h.media ]

BatchIds(h) ==
    SeqIds(h.posts) \cup SeqIds(h.comments) \cup SeqIds(h.locationTracks)
        \cup SeqIds(h.media)

\* createSyncLog(db, "manual", targetUrl, shelterId)
PushStart(i) ==
    /\ push[i].pc = "idle"
    /\ (IF i = 1 THEN TRUE ELSE push[i - 1].pc # "idle")
    /\ LET db1 == createSyncLog(edge, "manual", NoShelter) IN
         /\ edge' = db1
         /\ push' = [push EXCEPT ![i] = [@ EXCEPT !.pc = "fetch",
                                                  !.logId = lastRowId(db1)]]
    /\ UNCHANGED <<center, rx, pull, client, now>>

\* Faulty variant: the early return is missing, an empty batch is sent.
PushFetchSendsEmpty(i) ==
    /\ push[i].pc = "fetch"
    /\ LET posts    == fetchUnsyncedPosts(edge)
           comments == fetchUnsyncedComments(edge)
           tracks   == fetchUnsyncedLocationTracks(edge)
           media    == fetchMediaByPostIds(edge, SeqIds(posts))
       IN /\ edge' = edge
          /\ push' = [push EXCEPT ![i] =
                    [@ EXCEPT !.pc = "send", !.posts = posts,
                              !.comments = comments, !.locationTracks = tracks,
                              !.media = media]]
    /\ UNCHANGED <<center, rx, pull, client, now>>

\* fetchUnsynced*, fetchMediaByPostIds, and the early return when there is
\* nothing to send
PushFetch(i) ==
    /\ push[i].pc = "fetch"
    /\ LET posts    == fetchUnsyncedPosts(edge)
           comments == fetchUnsyncedComments(edge)
           tracks   == fetchUnsyncedLocationTracks(edge)
           media    == fetchMediaByPostIds(edge, SeqIds(posts))
       IN IF Len(posts) = 0 /\ Len(comments) = 0 /\ Len(tracks) = 0
          THEN /\ edge' = completeSyncLog(edge, push[i].logId, ZeroCounts)
               /\ push' = [push EXCEPT ![i] = [@ EXCEPT !.pc = "done",
                                                        !.outcome = "empty"]]
          ELSE /\ edge' = edge
               /\ push' = [push EXCEPT ![i] =
                    [@ EXCEPT !.pc = "send", !.posts = posts,
                              !.comments = comments, !.locationTracks = tracks,
                              !.media = media]]
    /\ UNCHANGED <<center, rx, pull, client, now>>

\* a query of the fetch step throws: the route's outer catch answers 500
PushFetchThrows(i) ==
    /\ push[i].pc = "fetch"
    /\ push' = [push EXCEPT ![i] = [@ EXCEPT !.pc = "done",
                                             !.outcome = "fetch_threw"]]
    /\ UNCHANGED <<edge, center, rx, pull, client, now>>

\* Faulty variant: the rows are marked before the answer is looked at.
pushFailedAfterMarking(db, h, text) ==
    failSyncLog(markPostsAsSynced(db, SeqIds(h.posts), 0), h.logId, text)

\* Faulty variant: the failure branch does not return, and the log that was
\* marked failed is completed afterwards.
pushFailedThenCompleted(db, h, text) ==
    completeSyncLog(failSyncLog(db, h.logId, text), h.logId, ZeroCounts)

\* The three failure branches after the outbound fetch: failSyncLog with the
\* failure text, then return; nothing else is written.
pushFailed(db, h, text) == failSyncLog(db, h.logId, text)

FailureText(outcome) ==
    CASE outcome = "transport" -> "fetch failed"
      [] outcome = "status"    -> "api status error"
      [] outcome = "parse"     -> "response json parse failed"

PushFails(i, outcome) ==
    /\ edge' = pushFailed(edge, push[i], FailureText(outcome))
    /\ push' = [push EXCEPT ![i] = [@ EXCEPT !.pc = "done",
                                             !.outcome = outcome]]

\* The store faults the central node may meet while it handles one request:
\* none, or the INSERT of one post of the batch throws.
RemoteFaults(h) == {{}} \cup { {id} : id \in SeqIds(h.posts) }

\* fetch() rejects.  The request was lost, or the central node handled it and
\* the answer was lost.
PushSendTransportError(i) ==
    /\ push[i].pc = "send"
    /\ \/ center' = center
       \/ \E bad \in RemoteFaults(push[i]) :
             center' = syncReceive(center, BatchOf(push[i]), bad).db
    /\ PushFails(i, "transport")
    /\ UNCHANGED <<rx, pull, client, now>>

\* !response.ok: the receive route's outer catch answered 500
PushSendBadStatus(i) ==
    /\ push[i].pc = "send"
    /\ PushFails(i, "status")
    /\ UNCHANGED <<center, rx, pull, client, now>>

\* response.json() throws
PushSendUnparseable(i) ==
    /\ push[i].pc = "send"
    /\ \E bad \in RemoteFaults(push[i]) :
          center' = syncReceive(center, BatchOf(push[i]), bad).db
    /\ PushFails(i, "parse")
    /\ UNCHANGED <<rx, pull, client, now>>

\* status 200 and a JSON body: whatever the body says, the handler goes on
\* to mark the rows it sent
PushSendOk(i) ==
    /\ push[i].pc = "send"
    /\ \E bad \in RemoteFaults(push[i]) :
          LET r == syncReceive(center, BatchOf(push[i]), bad) IN
          /\ center' = r.db
          /\ push' = [push EXCEPT ![i] = [@ EXCEPT !.pc = "mark",
                          !.outcome = "ok", !.remote = r.response]]
    /\ UNCHANGED <<edge, rx, pull, client, now>>

\* Faulty variant: the UPDATEs have no id list and mark every unsynced row.
markSentAllUnsynced(db, h, failing, t) ==
    markLocationTracksAsSynced(
        markCommentsAsSynced(
            markPostsAsSynced(db, Ids(db.posts), t), Ids(db.comments), t),
        Ids(db.tracks), t)

\* Promise.all of the three mark* UPDATEs.  `failing` are the UPDATEs that
\* throw; the others are applied.  An UPDATE with no ids returns at once.
markSent(db, h, failing, t) ==
    LET db1 == IF "posts" \in failing THEN db
               ELSE markPostsAsSynced(db, SeqIds(h.posts), t)
        db2 == IF "comments" \in failing THEN db1
               ELSE markCommentsAsSynced(db1, SeqIds(h.comments), t)
    IN IF "tracks" \in failing THEN db2
       ELSE markLocationTracksAsSynced(db2, SeqIds(h.locationTracks), t)

MayThrow(h) ==
    (IF Len(h.posts) > 0 THEN {"posts"} ELSE {})
        \cup (IF Len(h.comments) > 0 THEN {"comments"} ELSE {})
        \cup (IF Len(h.locationTracks) > 0 THEN {"tracks"} ELSE {})

\* the parsed body is not read by the steps that follow
PushMark(i) ==
    /\ push[i].pc = "mark"
    /\ edge' = markSent(edge, push[i], {}, now)
    /\ push' = [push EXCEPT ![i] = [@ EXCEPT !.pc = "complete",
                                             !.remote = << >>]]
    /\ UNCHANGED <<center, rx, pull, client, now>>

\* one of the UPDATEs throws: markError is rethrown to the outer catch
PushMarkThrows(i) ==
    /\ push[i].pc = "mark"
    /\ \E failing \in SUBSET MayThrow(push[i]) \ {{}} :
          edge' = markSent(edge, push[i], failing, now)
    /\ push' = [push EXCEPT ![i] = [@ EXCEPT !.pc = "done",
                                             !.outcome = "mark_threw",
                                             !.remote = << >>]]
    /\ UNCHANGED <<center, rx, pull, client, now>>

PushComplete(i) ==
    /\ push[i].pc = "complete"
    /\ edge' = completeSyncLog(edge, push[i].logId,
                  [posts |-> Len(push[i].posts), media |-> Len(push[i].media),
                   comments |-> Len(push[i].comments),
                   tracks |-> Len(push[i].locationTracks)])
    /\ push' = [push EXCEPT ![i] = [@ EXCEPT !.pc = "done",
                                             !.outcome = "completed"]]
    /\ UNCHANGED <<center, rx, pull, client, now>>

PushNext ==
    \/ CreatePost
    \/ CreateComment
    \/ \E i \in Pushers :
          \/ PushStart(i)
          \/ PushFetch(i)
          \/ PushFetchThrows(i)
          \/ PushSendTransportError(i)
          \/ PushSendBadStatus(i)
          \/ PushSendUnparseable(i)
          \/ PushSendOk(i)
          \/ PushMark(i)
          \/ PushMarkThrows(i)
          \/ PushComplete(i)

SpecPush == PushInit /\ [][PushNext]_vars

Terminal == {"completed", "failed"}

SyncedIds(db) ==
    [ posts    |-> Ids({ r \in db.posts : r.is_synced }),
      comments |-> Ids({ r \in db.comments : r.is_synced }),
      tracks   |-> Ids({ r \in db.tracks : r.is_synced }) ]

\* C1: a post, comment or location track whose synced flag is set at the
\* edge (in this specification only a push sets it) is present in the
\* central store.
C1_SyncedOnlyIfAccepted ==
    /\ \A r \in edge.posts : r.is_synced => HasId(center.posts, r.id)
    /\ \A r \in edge.comments : r.is_synced => HasId(center.comments, r.id)
    /\ \A r \in edge.tracks : r.is_synced => HasId(center.tracks, r.id)

C9_EveryLogEndsTerminal ==
    /\ \A i \in DOMAIN push :
          push[i].pc = "done" /\ push[i].logId # 0
              => edge.sync_logs[push[i].logId].status \in Terminal
    /\ pull.pc = "done" /\ pull.logId # 0
          => edge.sync_logs[pull.logId].status \in Terminal
    /\ \A k \in 1..Len(center.sync_logs) :
          center.sync_logs[k].status \in Terminal

\* C10: when the central node accepted the batch and the mark step then
\* failed, the push's SyncLog row is terminal, and the rows that were not
\* marked are still unsynced.
C10_MarkFailureIsLogged ==
    \A i \in Pushers :
        push[i].pc = "done" /\ push[i].outcome = "mark_threw" =>
            /\ edge.sync_logs[push[i].logId].status \in Terminal
            /\ \E r \in edge.posts \cup edge.comments \cup edge.tracks :
                  r.id \in BatchIds(push[i]) /\ ~r.is_synced

\* C11: when a push's SyncLog row is completed after a batch was sent, every
\* transmitted post, comment, location track and media row is marked synced
\* at the edge.
C11_AllFourTypesMarked ==
    \A i \in Pushers :
        push[i].pc = "done" /\ push[i].outcome = "completed" =>
            /\ edge.sync_logs[push[i].logId].status = "completed"
            /\ \A r \in edge.posts \cup edge.comments \cup edge.tracks \cup edge.media :
                  r.id \in BatchIds(push[i]) => r.is_synced

(***************************************************************************)
(* SpecPull: the edge node runs POST /api/sync/pull/execute for its        *)
(* shelter against the central node, whose GET /api/sync/pull answers      *)
(* while other writers keep inserting into the central store.              *)
(***************************************************************************)
MaxClock == 3           \* the clock stops here
MaxPulls == 2           \* pull attempts of the edge node

PullShelter == 1        \* VITE_DEFAULT_SHELTER_ID, the scope `shelter:1`

\* Records that reach the central store: by a push of another edge node,
\* which keeps the timestamps the origin gave them.
CenterPosts == { P("p1", 1), P("p2", 2) }

CenterComments == { K("c1", "p1") }

Stamp(rec, t) == [rec EXCEPT !.created_at = t, !.updated_at = t]

\* fetchPostsForPull / fetchCommentsForPull / fetchLocationTracksForPull /
\* fetchMediaForPull: the rows of the shelter changed at or after `since`;
\* no `since` means all of them.
ChangedSince(rows, since) ==
    { r \in rows : since = 0 \/ r.updated_at >= since }

fetchPostsForPull(db, shelterId, since) ==
    orderByCreatedAt({ Columns(r) :
        r \in ChangedSince({ q \in db.posts : q.shelter_id = shelterId }, since) })

fetchChildrenForPull(db, rows, shelterId, since) ==
    orderByCreatedAt({ Columns(r) :
        r \in ChangedSince(
            { q \in rows : \E post \in db.posts :
                              post.id = q.post_id /\ post.shelter_id = shelterId },
            since) })

fetchCommentsForPull(db, shelterId, since) ==
    fetchChildrenForPull(db, db.comments, shelterId, since)

fetchLocationTracksForPull(db, shelterId, since) ==
    fetchChildrenForPull(db, db.tracks, shelterId, since)

fetchMediaForPull(db, shelterId, since) ==
    fetchChildrenForPull(db, db.media, shelterId, since)

\* the pull cursor of the scope; 0 is "no row"
getLastPulledAt(db) == db.cursor

setLastPulledAt(db, serverTime) == [db EXCEPT !.cursor = serverTime]

\* applyPulledData: the insert-if-absent merge of receive; an INSERT that
\* throws ends it with the rows applied so far, and the error propagates.
applyPulledData(db, data, bad) == receiveAndInsertSyncData(db, data, bad)

IdlePull ==
    [ pc |-> "idle", attempts |-> 0, logId |-> 0, since |-> 0, outcome |-> "",
      applied |-> ZeroCounts,
      posts |-> << >>, comments |-> << >>, locationTracks |-> << >>,
      media |-> << >>, serverTime |-> 0 ]

PullInit ==
    /\ edge = EmptyDb
    /\ center = EmptyDb
    /\ pull = IdlePull
    /\ push = << >>
    /\ rx = Off
    /\ client = Off
    /\ now = 1

Tick ==
    /\ now < MaxClock
    /\ now' = now + 1
    /\ UNCHANGED <<edge, center, rx, push, pull, client>>

\* POST /api/sync/receive at the central node, from another edge node: one
\* record that was created there at time t and is pushed now.
CenterReceives ==
    /\ \E t \in 1..now :
          \/ \E post \in CenterPosts :
                /\ ~HasId(center.posts, post.id)
                /\ center' = syncReceive(center,
                      [posts |-> <<Stamp(post, t)>>, comments |-> << >>,
                       locationTracks |-> << >>, media |-> << >>], {}).db
          \/ \E comment \in CenterComments :
                /\ ~HasId(center.comments, comment.id)
                /\ \E post \in center.posts :
                      post.id = comment.post_id /\ post.created_at <= t
                /\ center' = syncReceive(center,
                      [posts |-> << >>, comments |-> <<Stamp(comment, t)>>,
                       locationTracks |-> << >>, media |-> << >>], {}).db
    /\ UNCHANGED <<edge, rx, push, pull, client, now>>

\* createSyncLog(db, "pull", targetUrl, shelterId); getLastPulledAt
PullStart ==
    /\ pull.pc \in {"idle", "done"}
    /\ pull.attempts < MaxPulls
    /\ LET db1 == createSyncLog(edge, "pull", PullShelter) IN
         /\ edge' = db1
         /\ pull' = [IdlePull EXCEPT !.pc = "request",
                        !.attempts = pull.attempts + 1,
                        !.logId = lastRowId(db1),
                        !.since = getLastPulledAt(db1)]
    /\ UNCHANGED <<center, rx, push, client, now>>

\* Faulty variant: the cursor is persisted before the apply step.
pullFailedCursorAhead(db, h, message) ==
    failSyncLog(setLastPulledAt(db, h.serverTime), h.logId, message)

\* The failure branches of the handler and its outer catch: failSyncLog and
\* answer 500; the cursor is not written.
pullFailed(db, h, message) == failSyncLog(db, h.logId, message)

PullFails(outcome) ==
    pull' = [pull EXCEPT !.pc = "done", !.outcome = outcome]

\* fetch() rejects
PullFetchError ==
    /\ pull.pc = "request"
    /\ edge' = pullFailed(edge, pull, "fetch failed")
    /\ PullFails("transport")
    /\ UNCHANGED <<center, rx, push, client, now>>

\* !response.ok
PullBadStatus ==
    /\ pull.pc = "request"
    /\ edge' = pullFailed(edge, pull, "api status error")
    /\ PullFails("status")
    /\ UNCHANGED <<center, rx, push, client, now>>

\* GET /api/sync/pull on the central node: the four queries of Promise.all
\* are separate statements; the posts query here, the others next.
RemoteQueryPosts ==
    /\ pull.pc = "request"
    /\ pull' = [pull EXCEPT !.pc = "remote_rest",
                   !.posts = fetchPostsForPull(center, PullShelter, pull.since)]
    /\ UNCHANGED <<edge, center, rx, push, client, now>>

RemoteQueryRest ==
    /\ pull.pc = "remote_rest"
    /\ pull' = [pull EXCEPT !.pc = "remote_time",
          !.comments = fetchCommentsForPull(center, PullShelter, pull.since),
          !.locationTracks =
              fetchLocationTracksForPull(center, PullShelter, pull.since),
          !.media = fetchMediaForPull(center, PullShelter, pull.since)]
    /\ UNCHANGED <<edge, center, rx, push, client, now>>

\* serverTime: new Date().toISOString(), read after the queries have answered
RemoteRespond ==
    /\ pull.pc = "remote_time"
    /\ pull' = [pull EXCEPT !.pc = "response", !.serverTime = now]
    /\ UNCHANGED <<edge, center, rx, push, client, now>>

PulledIds(h) ==
    SeqIds(h.posts) \cup SeqIds(h.comments) \cup SeqIds(h.locationTracks)
        \cup SeqIds(h.media)

\* response.json() throws: the outer catch
PullParseThrows ==
    /\ pull.pc = "response"
    /\ edge' = pullFailed(edge, pull, "parse")
    /\ PullFails("parse")
    /\ UNCHANGED <<center, rx, push, client, now>>

\* applyPulledData returns
PullApply ==
    /\ pull.pc = "response"
    /\ LET r == applyPulledData(edge, BatchOf(pull), {}) IN
         /\ r.success
         /\ edge' = r.db
         /\ pull' = [pull EXCEPT !.pc = "applied", !.outcome = "applied",
                                   !.applied = r.counts]
    /\ UNCHANGED <<center, rx, push, client, now>>

\* applyPulledData throws partway: the rows before the failing one stay, and
\* the outer catch fails the log
PullApplyThrows ==
    /\ pull.pc = "response"
    /\ \E bad \in {{}} \cup { {id} : id \in PulledIds(pull) } :
          LET r == applyPulledData(edge, BatchOf(pull), bad) IN
          /\ ~r.success
          /\ edge' = pullFailed(r.db, pull, "apply")
    /\ PullFails("apply")
    /\ UNCHANGED <<center, rx, push, client, now>>

\* Faulty variant: the cursor is left alone when the pull brought nothing.
advanceCursorIfPulled(db, h) ==
    IF PulledIds(h) = {} THEN db ELSE setLastPulledAt(db, h.serverTime)

\* await setLastPulledAt(db, scopeKey, pullData.serverTime), whatever was pulled
advanceCursor(db, h) == setLastPulledAt(db, h.serverTime)

PullSetCursor ==
    /\ pull.pc = "applied"
    /\ edge' = advanceCursor(edge, pull)
    /\ pull' = [pull EXCEPT !.pc = "complete"]
    /\ UNCHANGED <<center, rx, push, client, now>>

\* setLastPulledAt throws: the outer catch
PullSetCursorThrows ==
    /\ pull.pc = "applied"
    /\ edge' = pullFailed(edge, pull, "cursor")
    /\ PullFails("cursor")
    /\ UNCHANGED <<center, rx, push, client, now>>

\* completeSyncLog with the applied counts; no media file was pulled
PullComplete ==
    /\ pull.pc = "complete"
    /\ edge' = completeSyncLog(edge, pull.logId, [pull.applied EXCEPT !.media = 0])
    /\ pull' = [pull EXCEPT !.pc = "done", !.outcome = "completed"]
    /\ UNCHANGED <<center, rx, push, client, now>>

PullNext ==
    \/ Tick
    \/ CenterReceives
    \/ PullStart
    \/ PullFetchError
    \/ PullBadStatus
    \/ RemoteQueryPosts
    \/ RemoteQueryRest
    \/ RemoteRespond
    \/ PullParseThrows
    \/ PullApply
    \/ PullApplyThrows
    \/ PullSetCursor
    \/ PullSetCursorThrows
    \/ PullComplete

SpecPull == PullInit /\ [][PullNext]_vars

InScope(db, rows) ==
    { r \in rows : \E post \in db.posts :
                      post.id = r.post_id /\ post.shelter_id = PullShelter }

\* C2: advancing the cursor never skips a record.  A record of the pulled
\* shelter that is in the central store with a change time before the edge's
\* cursor (no later pull asks for it again) is in the edge's store.
C2_CursorSkipsNoRecord ==
    edge.cursor # 0 =>
        /\ \A r \in center.posts :
              r.shelter_id = PullShelter /\ r.updated_at < edge.cursor
                  => HasId(edge.posts, r.id)
        /\ \A r \in InScope(center, center.comments) :
              r.updated_at < edge.cursor => HasId(edge.comments, r.id)

\* C6: the stored cursor changes only after the apply step of a pull has
\* completed without error.  While a pull is fetching or applying, and after
\* a pull that failed at the fetch, on the status, on the body or in the
\* apply step, the cursor is the one the pull read at its start; otherwise it
\* is the serverTime of a pull whose apply step returned.
C6_CursorOnlyAfterApply ==
    \/ edge.cursor = pull.since
    \/ /\ pull.pc \in {"complete", "done"}
       /\ pull.outcome \in {"applied", "completed"}
       /\ edge.cursor = pull.serverTime

\* A second pull failed in its apply step after it had applied a row, and the
\* cursor is still the one the first pull stored.
C6_Witness ==
    /\ pull.pc = "done"
    /\ pull.outcome = "apply"
    /\ pull.attempts = 2
    /\ pull.since # 0
    /\ pull.serverTime > pull.since
    /\ edge.cursor = pull.since
    /\ \E r \in edge.posts : r.id \in SeqIds(pull.posts)

(***************************************************************************)
(* SpecClient: the browser's SyncService.  Its triggers (the online event, *)
(* the startup sync, the manual sync button, the pull interval, the        *)
(* startup pull) run as interleaved async calls; the local backend's       *)
(* /api/sync/execute handler runs once per request it is sent.             *)
(***************************************************************************)
MaxTriggers == 3        \* pull triggers that fire in one behaviour
MaxInFlight == 2        \* pull requests the browser keeps open at once

PushTriggers == {"online", "startup", "manual"}

\* import.meta.env: VITE_ENABLE_PULL_SYNC and VITE_NODE_ENV
Environments ==
    [ enablePull : {"true", "false", "unset"}, nodeEnv : {"local", "production"} ]

shouldEnablePull(c) ==
    IF c.env.enablePull = "true" THEN TRUE
    ELSE IF c.env.enablePull = "false" THEN FALSE
    ELSE c.env.nodeEnv = "local"

\* Faulty variant: the in-progress flag is not consulted.
pullSkippedWithoutFlag(c) == ~shouldEnablePull(c)

\* the first return of syncPullFromProduction
pullSkipped(c) == ~shouldEnablePull(c) \/ c.pullInProgress

ClientInit ==
    /\ \E env \in Environments, online \in BOOLEAN :
          client = [ env |-> env,
                     isOnline |-> online,
                     startupSyncTriggered |-> FALSE,
                     startupPullTriggered |-> FALSE,
                     isDbSyncing |-> FALSE,
                     call |-> [t \in PushTriggers |-> "idle"],
                     execute |-> [t \in PushTriggers |-> "none"],
                     pullInProgress |-> FALSE,
                     pulls |-> 0,
                     pullTriggers |-> 0,
                     pullIssued |-> 0,
                     lastPull |-> "none" ]
    /\ edge = EmptyDb
    /\ center = EmptyDb
    /\ rx = Off
    /\ push = << >>
    /\ pull = Off
    /\ now = 0

ClientStep(c) ==
    /\ client' = c
    /\ UNCHANGED <<edge, center, rx, push, pull, now>>

\* window "offline" event
handleOffline ==
    /\ client.isOnline
    /\ ClientStep([client EXCEPT !.isOnline = FALSE])

\* window "online" event: the pending queue is empty, autoSyncOnOnline
\* starts with checkProductionApiAvailable
handleOnline ==
    /\ ~client.isOnline
    /\ client.call["online"] = "idle"
    /\ ClientStep([client EXCEPT !.isOnline = TRUE, !.call["online"] = "checking"])

\* constructor: void this.triggerStartupSync()
triggerStartupSync ==
    /\ client.env.nodeEnv # "local"
    /\ ~client.startupSyncTriggered
    /\ ClientStep([client EXCEPT !.startupSyncTriggered = TRUE,
          !.call["startup"] = IF client.isOnline THEN "checking" ELSE "idle"])

\* syncDbToProduction: no guard; postApiSyncExecute is sent
syncDbToProduction(c, t) ==
    [c EXCEPT !.call[t] = "awaiting", !.execute[t] = "requested"]

\* autoSyncOnOnline after checkProductionApiAvailable answered
autoSyncOnOnline(t) ==
    /\ t \in {"online", "startup"}
    /\ client.call[t] = "checking"
    /\ \E available \in BOOLEAN :
          ClientStep(IF available THEN syncDbToProduction(client, t)
                     ELSE [client EXCEPT !.call[t] = "idle"])

\* the sync button of SyncStatus: disabled while offline or isDbSyncing
handleDbSync ==
    /\ client.isOnline
    /\ ~client.isDbSyncing
    /\ client.call["manual"] = "idle"
    /\ ClientStep(syncDbToProduction(
          [client EXCEPT !.isDbSyncing = TRUE], "manual"))

\* POST /api/sync/execute on the local backend: createSyncLog and the
\* fetches of the unsynced rows
ExecuteStart(t) ==
    /\ client.execute[t] = "requested"
    /\ ClientStep([client EXCEPT !.execute[t] = "running"])

\* nothing unsynced: completed without a request
ExecuteNothingToSend(t) ==
    /\ client.execute[t] = "running"
    /\ ClientStep([client EXCEPT !.execute[t] = "responded"])

\* fetch(`${targetUrl}/api/sync/receive`, {method: "POST"})
ExecutePost(t) ==
    /\ client.execute[t] = "running"
    /\ ClientStep([client EXCEPT !.execute[t] = "posting"])

\* the remote answered (or the request failed); the handler responds
ExecuteRespond(t) ==
    /\ client.execute[t] = "posting"
    /\ ClientStep([client EXCEPT !.execute[t] = "responded"])

\* postApiSyncExecute resolves or rejects; autoSyncOnOnline goes on with
\* syncMediaToProduction, handleDbSync resets isDbSyncing
PushResolve(t) ==
    /\ client.call[t] = "awaiting"
    /\ client.execute[t] = "responded"
    /\ ClientStep(
          IF t = "manual"
          THEN [client EXCEPT !.call[t] = "idle", !.execute[t] = "none",
                              !.isDbSyncing = FALSE]
          ELSE [client EXCEPT !.call[t] = "media", !.execute[t] = "none"])

\* syncMediaToProduction resolves
MediaResolve(t) ==
    /\ client.call[t] = "media"
    /\ ClientStep([client EXCEPT !.call[t] = "idle"])

\* syncPullFromProduction up to its await
syncPullFromProduction(c) ==
    LET fired == [c EXCEPT !.pullTriggers = c.pullTriggers + 1] IN
    IF pullSkipped(c)
    THEN [fired EXCEPT !.lastPull = "skipped"]
    ELSE [fired EXCEPT !.pullInProgress = TRUE,
                       !.pulls = c.pulls + 1,
                       !.pullIssued = c.pullIssued + 1,
                       !.lastPull = "issued"]

\* the setInterval callback of setupPullScheduler
PullInterval ==
    /\ shouldEnablePull(client)
    /\ client.isOnline
    /\ client.pullTriggers < MaxTriggers
    /\ client.pulls < MaxInFlight
    /\ ClientStep(syncPullFromProduction(client))

\* constructor: void this.triggerStartupPull()
triggerStartupPull ==
    /\ ~client.startupPullTriggered
    /\ client.pullTriggers < MaxTriggers
    /\ client.pulls < MaxInFlight
    /\ LET c == [client EXCEPT !.startupPullTriggered = TRUE] IN
         ClientStep(IF shouldEnablePull(c) /\ c.isOnline
                    THEN syncPullFromProduction(c) ELSE c)

\* postApiSyncPullExecute resolves or rejects: finally
PullResolve ==
    /\ client.pulls > 0
    /\ ClientStep([client EXCEPT !.pulls = client.pulls - 1,
                                 !.pullInProgress = FALSE])

ClientNext ==
    \/ handleOffline
    \/ handleOnline
    \/ triggerStartupSync
    \/ handleDbSync
    \/ PullInterval
    \/ triggerStartupPull
    \/ PullResolve
    \/ \E t \in PushTriggers :
          \/ autoSyncOnOnline(t)
          \/ ExecuteStart(t)
          \/ ExecuteNothingToSend(t)
          \/ ExecutePost(t)
          \/ ExecuteRespond(t)
          \/ PushResolve(t)
          \/ MediaResolve(t)

SpecClient == ClientInit /\ [][ClientNext]_vars

PushesInFlight == { t \in PushTriggers : client.execute[t] \in {"running", "posting"} }

\* C7: at most one push is in flight per node, and at most one POST to the
\* remote receive endpoint is open.
C7_AtMostOnePushInFlight ==
    /\ Cardinality(PushesInFlight) <= 1
    /\ Cardinality({ t \in PushTriggers : client.execute[t] = "posting" }) <= 1

\* C8: at most one pull is in flight per client, and a pull request is
\* issued only in the step of a trigger that found no pull active: a trigger
\* that finds one active issues nothing, then or later.
C8_AtMostOnePullInFlight ==
    [][ /\ client'.pulls <= 1
        /\ client'.pullIssued # client.pullIssued
              => /\ client'.pullTriggers = client.pullTriggers + 1
                 /\ client.pulls = 0
        /\ client'.pullTriggers # client.pullTriggers /\ client.pulls > 0
              => /\ client'.pullIssued = client.pullIssued
                 /\ client'.pulls = client.pulls ]_vars

\* A trigger was skipped while a pull was in flight, and the pull is still
\* the only one.
C8_Witness ==
    /\ client.pulls = 1
    /\ client.pullInProgress
    /\ client.lastPull = "skipped"
    /\ client.pullTriggers > client.pullIssued

\* C12: the stored cursor of the scope never decreases.
C12_CursorNeverDecreases ==
    [][ edge'.cursor >= edge.cursor ]_vars

\* A second successful pull stored a cursor later than the first one's.
C12_Witness ==
    /\ pull.attempts = 2
    /\ pull.outcome = "completed"
    /\ pull.since # 0
    /\ edge.cursor > pull.since

\* the central store has no row of the pulled shelter changed at or after t
NoChangeSince(db, t) ==
    /\ \A r \in db.posts : r.shelter_id = PullShelter => r.updated_at < t
    /\ \A r \in InScope(db, db.comments) \cup InScope(db, db.tracks)
                \cup InScope(db, db.media) : r.updated_at < t

\* the central store has no row of the pulled shelter changed after t
NoChangeAfter(db, t) ==
    /\ \A r \in db.posts : r.shelter_id = PullShelter => r.updated_at <= t
    /\ \A r \in InScope(db, db.comments) \cup InScope(db, db.tracks)
                \cup InScope(db, db.media) : r.updated_at <= t

Answered == pull.pc \in {"response", "applied", "complete"} \/
            (pull.pc = "done" /\ pull.outcome \in {"parse", "apply", "cursor", "completed"})

\* C13 as amended: a pull with a stored cursor against a central store with
\* no change at or after that cursor receives empty arrays for every entity
\* type, and when it completes the stored cursor is the serverTime of the
\* answer, which is not before the old cursor.
C13_QuietPullAdvancesCursor ==
    (Answered /\ pull.since # 0 /\ NoChangeSince(center, pull.since)) =>
        /\ PulledIds(pull) = {}
        /\ pull.outcome = "completed" =>
              edge.cursor = pull.serverTime /\ edge.cursor >= pull.since

\* C13 as stated: a pull with a stored cursor against a central store with
\* no change after that cursor receives empty arrays for every entity type
\* and leaves the stored cursor unchanged.
C13_QuietPullKeepsCursor ==
    (Answered /\ pull.since # 0 /\ NoChangeAfter(center, pull.since)) =>
        /\ PulledIds(pull) = {}
        /\ pull.outcome = "completed" => edge.cursor = pull.since

\* A second pull found nothing changed since the cursor, completed, and
\* moved the cursor forward to its serverTime.
C13_Witness ==
    /\ pull.since # 0
    /\ pull.outcome = "completed"
    /\ NoChangeSince(center, pull.since)
    /\ PulledIds(pull) = {}
    /\ center.posts # {}
    /\ edge.cursor = pull.serverTime
    /\ edge.cursor > pull.since

(***************************************************************************)
(* SpecMedia: syncMediaFiles, the replication of media objects from the    *)
(* central object store into the edge's, run twice over the same list of   *)
(* media rows.  Each row's file_path is media/<postId>/<mediaId>, so the   *)
(* keys of a list are distinct.                                            *)
(***************************************************************************)
MaxMedia == 4           \* media rows of the list

CONCURRENCY == 3

MediaKeys == { "k1", "k2", "k3", "k4", "k5", "k6" }

KeyOf(n) ==
    CASE n = 1 -> "k1" [] n = 2 -> "k2" [] n = 3 -> "k3"
      [] n = 4 -> "k4" [] n = 5 -> "k5" [] OTHER -> "k6"

MediaLists == { [n \in 1..len |-> KeyOf(n)] : len \in 0..MaxMedia }

Min(a, b) == IF a < b THEN a ELSE b

\* Faulty variant: every row of the list is transferred.
needsPullAlways(bucket, key) == TRUE

\* const exists = await localBucket.head(media.file_path); if (!exists) ...
needsPull(bucket, key) == key \notin bucket

\* Faulty variant: the rest of the list is started at once.
sliceRest(mediaToPull, i) == SubSeq(mediaToPull, i, Len(mediaToPull))

\* mediaToPull.slice(i, i + CONCURRENCY), i counted from 1
sliceBatch(mediaToPull, i) ==
    SubSeq(mediaToPull, i, Min(i + CONCURRENCY - 1, Len(mediaToPull)))

Settled == {"fulfilled", "rejected"}

CountOf(transfers, state) ==
    Cardinality({ k \in DOMAIN transfers : transfers[k] = state })

\* Faulty variant: Promise.all; the first rejection is the batch's result.
tallyFirstRejection(h) ==
    IF CountOf(h.transfers, "rejected") > 0
    THEN [h EXCEPT !.failed = @ + 1]
    ELSE [h EXCEPT !.synced = @ + CountOf(h.transfers, "fulfilled")]

\* for (const result of results) synced++ / failed++
tally(h) ==
    [h EXCEPT !.synced = @ + CountOf(h.transfers, "fulfilled"),
              !.failed = @ + CountOf(h.transfers, "rejected")]

NewPass(list, n) ==
    [ pc |-> "head", pass |-> n, mediaList |-> list, k |-> 1,
      mediaToPull |-> << >>, i |-> 1, transfers |-> << >>,
      synced |-> 0, failed |-> 0, attempted |-> {}, stored |-> {},
      storedBefore |-> {} ]

\* The edge when the pull handler calls syncMediaFiles: its log is open, the
\* apply step has stored the post and the media rows of the list, and the
\* scope has a cursor from an earlier pull.
MediaStore(list) ==
    [createSyncLog(EmptyDb, "pull", 1) EXCEPT
        !.posts  = { Row(P("p1", 1), TRUE) },
        !.media  = { Row(K(key, "p1"), TRUE) : key \in SeqToSet(list) },
        !.cursor = 1]

MediaInit ==
    /\ \E list \in MediaLists :
          \E present \in SUBSET SeqToSet(list) :
             /\ pull = NewPass(list, 1)
             /\ edge = [MediaStore(list) EXCEPT !.bucket = present]
    /\ center = EmptyDb
    /\ rx = Off
    /\ push = << >>
    /\ client = Off
    /\ now = 0

\* one turn of the filter loop; after the last row, the early return when
\* nothing is to pull
MediaHead ==
    /\ pull.pc = "head"
    /\ pull.k <= Len(pull.mediaList)
    /\ LET key  == pull.mediaList[pull.k]
           list == IF needsPull(edge.bucket, key)
                   THEN Append(pull.mediaToPull, key) ELSE pull.mediaToPull
       IN pull' = [pull EXCEPT !.k = @ + 1, !.mediaToPull = list]
    /\ UNCHANGED <<edge, center, rx, push, client, now>>

MediaFiltered ==
    /\ pull.pc = "head"
    /\ pull.k > Len(pull.mediaList)
    /\ pull' = [pull EXCEPT !.pc =
                  IF Len(pull.mediaToPull) = 0 THEN "returned" ELSE "batch"]
    /\ UNCHANGED <<edge, center, rx, push, client, now>>

\* localBucket.head rejects: syncMediaFiles throws
MediaHeadThrows ==
    /\ pull.pc = "head"
    /\ pull.k <= Len(pull.mediaList)
    /\ pull' = [pull EXCEPT !.pc = "threw"]
    /\ UNCHANGED <<edge, center, rx, push, client, now>>

\* batch.map(downloadAndUploadMedia): every transfer of the batch issues
\* its download
MediaBatchStart ==
    /\ pull.pc = "batch"
    /\ LET batch == sliceBatch(pull.mediaToPull, pull.i) IN
         pull' = [pull EXCEPT !.pc = "await",
                     !.transfers = [key \in SeqToSet(batch) |-> "downloading"],
                     !.attempted = @ \cup SeqToSet(batch)]
    /\ UNCHANGED <<edge, center, rx, push, client, now>>

\* downloadAndUploadMedia: fetch rejects or !response.ok
TransferDownloadFails(key) ==
    /\ pull.pc = "await"
    /\ key \in DOMAIN pull.transfers
    /\ pull.transfers[key] = "downloading"
    /\ pull' = [pull EXCEPT !.transfers[key] = "rejected"]
    /\ UNCHANGED <<edge, center, rx, push, client, now>>

\* the body arrived; localBucket.put is issued
TransferDownloaded(key) ==
    /\ pull.pc = "await"
    /\ key \in DOMAIN pull.transfers
    /\ pull.transfers[key] = "downloading"
    /\ pull' = [pull EXCEPT !.transfers[key] = "uploading"]
    /\ UNCHANGED <<edge, center, rx, push, client, now>>

\* Faulty variant: the transfer also rewrites the object's media row.
TransferPutTouchesRow(key) ==
    /\ pull.pc = "await"
    /\ key \in DOMAIN pull.transfers
    /\ pull.transfers[key] = "uploading"
    /\ edge' = [edge EXCEPT !.bucket = @ \cup {key},
                            !.media = { IF r.id = key
                                        THEN [r EXCEPT !.updated_at = 1]
                                        ELSE r : r \in @ }]
    /\ pull' = [pull EXCEPT !.transfers[key] = "fulfilled",
                            !.stored = @ \cup {key}]
    /\ UNCHANGED <<center, rx, push, client, now>>

TransferPut(key) ==
    /\ pull.pc = "await"
    /\ key \in DOMAIN pull.transfers
    /\ pull.transfers[key] = "uploading"
    /\ edge' = [edge EXCEPT !.bucket = @ \cup {key}]
    /\ pull' = [pull EXCEPT !.transfers[key] = "fulfilled",
                            !.stored = @ \cup {key}]
    /\ UNCHANGED <<center, rx, push, client, now>>

TransferPutFails(key) ==
    /\ pull.pc = "await"
    /\ key \in DOMAIN pull.transfers
    /\ pull.transfers[key] = "uploading"
    /\ pull' = [pull EXCEPT !.transfers[key] = "rejected"]
    /\ UNCHANGED <<edge, center, rx, push, client, now>>

\* Promise.allSettled resolves; the counters; the next batch or the return
MediaBatchSettled ==
    /\ pull.pc = "await"
    /\ \A key \in DOMAIN pull.transfers : pull.transfers[key] \in Settled
    /\ LET h == tally(pull)
           next == pull.i + CONCURRENCY
       IN pull' = [h EXCEPT !.i = next, !.transfers = << >>,
                     !.pc = IF next > Len(pull.mediaToPull)
                            THEN "returned" ELSE "batch"]
    /\ UNCHANGED <<edge, center, rx, push, client, now>>

\* the same list is replicated again
MediaSecondPass ==
    /\ pull.pc = "returned"
    /\ pull.pass = 1
    /\ pull' = [NewPass(pull.mediaList, 2) EXCEPT !.storedBefore = edge.bucket]
    /\ UNCHANGED <<edge, center, rx, push, client, now>>

MediaNext ==
    \/ MediaHead
    \/ MediaFiltered
    \/ MediaHeadThrows
    \/ MediaBatchStart
    \/ MediaBatchSettled
    \/ MediaSecondPass
    \/ \E key \in MediaKeys :
          \/ TransferDownloadFails(key)
          \/ TransferDownloaded(key)
          \/ TransferPut(key)
          \/ TransferPutFails(key)

SpecMedia == MediaInit /\ [][MediaNext]_vars

InFlight ==
    IF pull.pc = "await"
    THEN { key \in DOMAIN pull.transfers : pull.transfers[key] \notin Settled }
    ELSE {}

\* C14: no object is downloaded or uploaded while its key exists in the
\* edge's store, and the second pass over a list transfers no key that was
\* in the store when it began: its synced count is the number of keys it
\* stored itself, 0 when the first pass left nothing to store.
C14_MediaDedup ==
    /\ \A key \in InFlight : key \notin edge.bucket
    /\ pull.pass = 2 =>
          /\ pull.attempted \cap pull.storedBefore = {}
          /\ pull.pc = "returned" =>
                /\ pull.synced = Cardinality(pull.stored)
                /\ SeqToSet(pull.mediaList) \subseteq pull.storedBefore
                      => pull.synced = 0 /\ pull.failed = 0

\* The first pass stored an object, and the second pass returned without
\* touching it.
C14_Witness ==
    /\ pull.pass = 2
    /\ pull.pc = "returned"
    /\ pull.storedBefore # {}
    /\ Len(pull.mediaList) >= 2
    /\ pull.synced = 0
    /\ pull.attempted = {}

\* C15: at most CONCURRENCY transfers are in flight at any time.
C15_AtMostThreeInFlight == Cardinality(InFlight) <= CONCURRENCY

\* A list with more than three objects to pull: three in flight in the first
\* batch while the fourth waits.
C15_Witness ==
    /\ Len(pull.mediaToPull) > CONCURRENCY
    /\ Cardinality(InFlight) = CONCURRENCY
    /\ pull.i = 1

\* C16: when a pass returns, every object that was not in the store at the
\* filter was attempted, whatever failed before it, and synced + failed is
\* their number.
C16_EveryObjectAttempted ==
    pull.pc = "returned" =>
        /\ pull.attempted = SeqToSet(pull.mediaToPull)
        /\ pull.synced + pull.failed = Len(pull.mediaToPull)
        /\ pull.synced = Cardinality(pull.stored)

\* A pass returned after a transfer of its first batch failed and a transfer
\* of its second batch succeeded.
C16_Witness ==
    /\ pull.pc = "returned"
    /\ pull.pass = 1
    /\ Len(pull.mediaToPull) > CONCURRENCY
    /\ pull.failed >= 1
    /\ pull.mediaToPull[1] \notin pull.stored
    /\ pull.mediaToPull[Len(pull.mediaToPull)] \in pull.stored

\* ---------------------------------------------------------------------
\* SpecQueue: the offline queue of the browser's SyncService
\* (frontend/src/lib/sync-service.ts).  `client` holds the service
\* object, the browser's local storage entry "pending_operations", the
\* drain loop's position and the service's pull request; every other
\* variable is parked.
\* ---------------------------------------------------------------------

\* Operations queued over one run of the model.
MaxOps == 2

\* The count of successful answers per item is kept up to this number.
MaxDelivered == 2

LegacyKinds == {"create_report", "add_message", "update_status"}

NoRequest == [method |-> "none", url |-> "none"]

\* The shapes the application queues: queueApiRequest (conversation
\* thread) and the three addPendingOperation calls of the dashboard,
\* which pass a kind and data but no request.
QueuedShapes ==
    { [type |-> "api_request",
       request |-> [method |-> "POST", url |-> "/posts/:id/comments"]] }
    \cup { [type |-> k, request |-> NoRequest] : k \in LegacyKinds }

isCurrentShape(op) == op.type = "api_request" /\ op.request # NoRequest

legacyRequest(type) ==
    CASE type = "create_report" -> [method |-> "POST", url |-> "/posts"]
      [] type = "add_message" ->
            [method |-> "POST", url |-> "/shelters/:id/messages"]
      [] type = "update_status" ->
            [method |-> "PATCH", url |-> "/reports/status"]
      [] OTHER -> NoRequest

\* normalizeLegacyOperations: current items are kept, known legacy
\* kinds are rewritten as api_request items, the rest are dropped; both
\* are counted.  The result is a new array.
normalizeLegacyOperations(ops) ==
    LET mapped(op) ==
            IF isCurrentShape(op) THEN op
            ELSE [op EXCEPT !.type = "api_request",
                            !.request = legacyRequest(op.type)]
        all == [i \in 1..Len(ops) |-> mapped(ops[i])]
        kept(op) == op.request # NoRequest
    IN [ops |-> SelectSeq(all, kept),
        migratedCount |->
            Cardinality({i \in 1..Len(ops) :
                            ~isCurrentShape(ops[i]) /\ kept(all[i])}),
        droppedCount |->
            Cardinality({i \in 1..Len(ops) : ~kept(all[i])})]

\* The queue does not read VITE_ENABLE_PULL.
QueueEnvironments == {env \in Environments : env.enablePull = "unset"}

NoLoop ==
    [pc |-> "none", array |-> << >>, aliased |-> FALSE, idx |-> 0,
     remaining |-> << >>, calls |-> << >>, failed |-> {}]

\* syncPullFromProduction up to its await: nothing when pull is disabled
\* or a pull is in progress, otherwise the flag is set and the request sent.
pullStarted(c) ==
    IF pullSkipped(c) THEN c
    ELSE [c EXCEPT !.pullInProgress = TRUE, !.pulls = @ + 1,
                   !.lastPull = "issued"]

\* triggerStartupPull, as the constructor runs it
startupPull(c) ==
    IF shouldEnablePull(c) /\ c.isOnline THEN pullStarted(c) ELSE c

QueueInit ==
    /\ edge = EmptyDb
    /\ center = EmptyDb
    /\ rx = Off
    /\ push = << >>
    /\ pull = Off
    /\ now = 0
    /\ \E env \in QueueEnvironments, online \in BOOLEAN :
         client = startupPull(
                  [env |-> env,
                   isOnline |-> online,
                   sessionSyncDone |-> env.nodeEnv # "local",
                   syncInProgress |-> FALSE,
                   pendingOperations |-> << >>,
                   stored |-> << >>,
                   enqueued |-> 0,
                   loop |-> NoLoop,
                   lastDrain |-> "none",
                   inFlight |-> {},
                   succeeded |-> {},
                   delivered |-> [k \in 1..MaxOps |-> 0],
                   replayedAgain |-> {},
                   loopDropped |-> {},
                   pullInProgress |-> FALSE,
                   pulls |-> 0,
                   lastPull |-> "none"])

QueueStep(c) ==
    /\ client' = c
    /\ UNCHANGED <<edge, center, rx, push, pull, now>>

\* savePendingOperations: the array is written to local storage.
savePendingOperations(c) == [c EXCEPT !.stored = c.pendingOperations]

\* addPendingOperation: push onto the array the service holds (the
\* drain loop sees the item too while it iterates that same array),
\* then save.  The callers queue only while the service is offline.
addPendingOperation(shape) ==
    /\ ~client.isOnline
    /\ client.enqueued < MaxOps
    /\ LET op == [key |-> client.enqueued + 1,
                  type |-> shape.type, request |-> shape.request]
           c1 == [client EXCEPT
                    !.enqueued = @ + 1,
                    !.lastDrain = "none",
                    !.pendingOperations = Append(@, op),
                    !.loop.array =
                        IF client.loop.aliased THEN Append(@, op) ELSE @]
       IN QueueStep(savePendingOperations(c1))

\* The normalisation as the handlers run it: nothing on an empty queue,
\* otherwise the array is replaced and saved.
normalized(c) ==
    IF Len(c.pendingOperations) = 0 THEN c
    ELSE savePendingOperations(
           [c EXCEPT
              !.pendingOperations =
                  normalizeLegacyOperations(c.pendingOperations).ops,
              !.lastDrain = "none",
              !.loop.aliased = FALSE])

\* Faulty variant: the loop walks the array from its newest item.
nextOpNewestFirst(array, idx) == array[Len(array) + 1 - idx]

\* for (const op of this.pendingOperations): the next item of the array.
nextOp(array, idx) == array[idx]

\* Faulty variant: the flag is reset only when every request succeeded.
finishDrainKeepsFlagOnFailure(c) ==
    savePendingOperations(
      [c EXCEPT
         !.pendingOperations = c.loop.remaining,
         !.syncInProgress = Len(c.loop.remaining) > 0,
         !.lastDrain = "finished",
         !.loop.pc = "none",
         !.loop.aliased = FALSE])

\* After the loop: the kept items become the queue and are saved; the
\* finally block resets the flag, also when notifySyncComplete throws.
finishDrain(c) ==
    savePendingOperations(
      [c EXCEPT
         !.pendingOperations = c.loop.remaining,
         !.syncInProgress = FALSE,
         !.lastDrain = "finished",
         !.loop.pc = "none",
         !.loop.aliased = FALSE])

\* The loop from where it stands to its next await or to its end: an
\* item that is not an api_request is dropped with a warning, the
\* request of the first one that is gets issued.
RECURSIVE runLoop(_)
runLoop(c) ==
    IF c.loop.idx > Len(c.loop.array) THEN finishDrain(c)
    ELSE LET op == nextOp(c.loop.array, c.loop.idx)
         IN IF op.type # "api_request"
            THEN runLoop([c EXCEPT !.loop.idx = @ + 1,
                                   !.loopDropped = @ \cup {op.key}])
            ELSE [c EXCEPT
                    !.loop.pc = "call",
                    !.loop.calls = Append(@, op.key),
                    !.inFlight = @ \cup {op.key},
                    !.replayedAgain =
                        IF op.key \in c.succeeded
                        THEN @ \cup {op.key} ELSE @]

\* syncPendingOperations up to its first await: nothing while a drain
\* runs or on an empty queue, otherwise the loop starts on the array.
drainStarted(c) ==
    IF c.syncInProgress \/ Len(c.pendingOperations) = 0 THEN c
    ELSE runLoop(
           [c EXCEPT
              !.syncInProgress = TRUE,
              !.lastDrain = "none",
              !.loop = [pc |-> "loop", array |-> c.pendingOperations,
                        aliased |-> TRUE, idx |-> 1, remaining |-> << >>,
                        calls |-> << >>, failed |-> {}]])

\* handleOnline, queue part: normalise, then drain.
QueueOnline ==
    /\ ~client.isOnline
    /\ QueueStep(drainStarted(normalized([client EXCEPT !.isOnline = TRUE])))

QueueOffline ==
    /\ client.isOnline
    /\ QueueStep([client EXCEPT !.isOnline = FALSE])

\* forcSync: drains when online; it does not normalise.
forcSync ==
    /\ client.isOnline
    /\ QueueStep(drainStarted(client))

\* triggerStartupSync, queue part, as the constructor runs it.
startupSync(c) ==
    IF c.env.nodeEnv = "local" \/ c.sessionSyncDone THEN c
    ELSE LET c1 == [c EXCEPT !.sessionSyncDone = TRUE]
         IN IF ~c1.isOnline THEN c1 ELSE drainStarted(normalized(c1))

\* The page is loaded again, in the same tab or in a new one: a new
\* service object reads navigator.onLine and loads the stored queue;
\* the old drain and its call in flight are gone with the old page.
Reload ==
    \E newTab \in BOOLEAN, online \in BOOLEAN :
      /\ Len(client.stored) > 0
      /\ QueueStep(startupPull(startupSync(
           [client EXCEPT
              !.isOnline = online,
              !.pendingOperations = client.stored,
              !.syncInProgress = FALSE,
              !.sessionSyncDone = IF newTab THEN FALSE ELSE @,
              !.loop = NoLoop,
              !.lastDrain = "none",
              !.inFlight = {},
              !.pullInProgress = FALSE,
              !.pulls = 0,
              !.lastPull = "none"])))

\* The awaited request resolves: the item is not kept.
CallSucceeds ==
    /\ client.loop.pc = "call"
    /\ LET op == nextOp(client.loop.array, client.loop.idx)
       IN QueueStep(runLoop([client EXCEPT
                               !.loop.pc = "loop",
                               !.loop.idx = @ + 1,
                               !.inFlight = @ \ {op.key},
                               !.succeeded = @ \cup {op.key},
                               !.delivered[op.key] =
                                   IF @ < MaxDelivered THEN @ + 1 ELSE @]))

\* Faulty variant: a failed item is not kept.
callFailedDropsItem(c, op) == [c EXCEPT !.loop.failed = @ \cup {op.key}]

\* The catch of the loop: the item is kept for the next drain.
callFailed(c, op) ==
    [c EXCEPT !.loop.remaining = Append(@, op),
              !.loop.failed = @ \cup {op.key}]

\* The awaited request rejects.
CallFails ==
    /\ client.loop.pc = "call"
    /\ LET op == nextOp(client.loop.array, client.loop.idx)
       IN QueueStep(runLoop(callFailed([client EXCEPT
                                          !.loop.pc = "loop",
                                          !.loop.idx = @ + 1,
                                          !.inFlight = @ \ {op.key}], op)))

\* the setInterval callback of setupPullScheduler
QueuePullInterval ==
    /\ shouldEnablePull(client)
    /\ client.isOnline
    /\ QueueStep(pullStarted(client))

\* postApiSyncPullExecute resolves, with success or with an error result,
\* or rejects: the finally block
QueuePullSettles ==
    /\ client.pulls > 0
    /\ QueueStep([client EXCEPT !.pulls = @ - 1,
                                !.pullInProgress = FALSE,
                                !.lastPull = "settled"])

QueueNext ==
    \/ \E shape \in QueuedShapes : addPendingOperation(shape)
    \/ QueueOnline
    \/ QueueOffline
    \/ forcSync
    \/ Reload
    \/ CallSucceeds
    \/ CallFails
    \/ QueuePullInterval
    \/ QueuePullSettles

SpecQueue == QueueInit /\ [][QueueNext]_vars

Increasing(keys) ==
    \A i \in 1..Len(keys) : \A j \in 1..Len(keys) :
        i < j => keys[i] < keys[j]

\* C17: within a drain the requests are issued oldest first (keys grow
\* with the order of queueing), and a request is issued only when no
\* other is awaiting its answer.
C17_DrainIsFifo ==
    /\ Increasing(client.loop.calls)
    /\ Cardinality(client.inFlight) <= 1

\* The second request of a drain is in flight, the first has settled.
C17_Witness ==
    /\ client.loop.pc = "call"
    /\ Len(client.loop.calls) = 2
    /\ client.inFlight = {client.loop.calls[2]}

FailedOps(c) ==
    SelectSeq(c.loop.array, LAMBDA op : op.key \in c.loop.failed)

\* C18: when a drain has just ended, the queue holds exactly the items
\* whose request failed in that drain, in the order they had, none
\* whose request succeeded, and local storage holds the same sequence.
C18_QueueKeepsFailedOnly ==
    client.lastDrain = "finished"
        => /\ client.pendingOperations = FailedOps(client)
           /\ client.stored = client.pendingOperations
           /\ \A i \in 1..Len(client.pendingOperations) :
                client.pendingOperations[i].key \notin
                    (SeqToSet(client.loop.calls) \ client.loop.failed)

\* A drain has just ended in which one request succeeded and one failed.
C18_Witness ==
    /\ client.lastDrain = "finished"
    /\ Len(client.loop.calls) = 2
    /\ Cardinality(client.loop.failed) = 1
    /\ Len(client.pendingOperations) = 1
    /\ client.stored = client.pendingOperations

\* C19: no request is issued for an item whose request has already
\* succeeded.
C19_NeverReplayedAgain == client.replayedAgain = {}

\* C20: the drain loop never meets an item that is not in the current
\* request shape, so it drops none.
C20_LegacyNormalizedBeforeReplay == client.loopDropped = {}

\* C21: the request of a queued item is answered with success at most
\* once, whatever triggers arrive while a drain is running.
C21_SentExactlyOnce ==
    \A k \in 1..MaxOps : client.delivered[k] <= 1

LogRows == SeqToSet(edge.sync_logs) \cup SeqToSet(center.sync_logs)

\* C22: a sync_logs row is in_progress until its one update, which makes
\* it completed or failed; no row of either node is updated twice.
C22_LogUpdatedAtMostOnce ==
    \A row \in LogRows :
        /\ row.updates <= 1
        /\ (row.updates = 0) = (row.status = "in_progress")
        /\ row.status \in {"in_progress", "completed", "failed"}

\* The edge holds a failed and a completed push log, and the central node
\* a log of a receive that ended.
C22_Witness ==
    /\ \E row \in SeqToSet(edge.sync_logs) : row.status = "failed"
    /\ \E row \in SeqToSet(edge.sync_logs) : row.status = "completed"
    /\ \E row \in SeqToSet(center.sync_logs) : row.updates = 1

\* A child record of the batch whose post is neither in the batch nor in
\* the store.
Unresolved(db, data, r) == postIdToShelterId(db, data, r.post_id) = NoShelter

WithoutUnresolved(db, data) ==
    LET found(r) == ~Unresolved(db, data, r) IN
    [data EXCEPT !.media = SelectSeq(@, found),
                 !.comments = SelectSeq(@, found),
                 !.locationTracks = SelectSeq(@, found)]

UnresolvedOf(db, data) ==
    { r \in SeqToSet(data.media) \cup SeqToSet(data.comments)
              \cup SeqToSet(data.locationTracks) : Unresolved(db, data, r) }

\* C23: a child record whose post cannot be resolved is left out and has
\* no other effect: it is not stored, and the store and the response
\* (success, totals and every shelter result) are those of the same batch
\* without such records.
C23_UnresolvedChildOnlySkipped ==
    rx.pc = "once" =>
        LET r == syncReceive(rx.db0, WithoutUnresolved(rx.db0, rx.batch), rx.bad)
        IN /\ center = r.db
           /\ rx.resp1 = r.response
           /\ \A x \in UnresolvedOf(rx.db0, rx.batch) :
                 \A row \in center.comments \cup center.tracks \cup center.media :
                     row.post_id # x.post_id

\* A batch with a comment of an unknown post was received: its other
\* records were inserted and the call succeeded.
C23_Witness ==
    /\ rx.pc = "once"
    /\ \E x \in UnresolvedOf(rx.db0, rx.batch) : x \in SeqToSet(rx.batch.comments)
    /\ rx.resp1.success
    /\ rx.resp1.totals.posts > 0
    /\ rx.resp1.totals.comments > 0

Children(db) == db.comments \cup db.tracks \cup db.media

\* C24: every comment, location track and media row of the central store
\* references a post of the central store.
C24_ChildrenHaveTheirPost ==
    \A row \in Children(center) : HasId(center.posts, row.post_id)

\* A call has stored a comment and a media row, in a batch that also held
\* a child of a post found nowhere and a post the store rejected.
C24_Witness ==
    /\ rx.pc = "once"
    /\ rx.resp1.totals.comments > 0
    /\ rx.resp1.totals.media > 0
    /\ UnresolvedOf(rx.db0, rx.batch) # {}
    /\ ~rx.resp1.success

\* The steps of a push handler that need nothing but the edge's own store.
PushLocalStep(i) ==
    \/ PushFetch(i)
    \/ PushFetchThrows(i)
    \/ PushMark(i)
    \/ PushMarkThrows(i)
    \/ PushComplete(i)

\* SpecPushFair: the push handlers with their local steps always taken in
\* the end.  The answer to the outbound fetch is the remote's to give:
\* fetch is called with no signal or timeout, so nothing in the handler
\* makes the await end.
SpecPushFair ==
    PushInit /\ [][PushNext]_vars /\ \A i \in Pushers : WF_vars(PushLocalStep(i))

\* C25: a push that has sent its request ends, whatever the remote does.
C25_AttemptEnds ==
    \A i \in Pushers : (push[i].pc = "send") ~> (push[i].pc = "done")

\* ---------------------------------------------------------------------
\* SpecRecvPair: two calls of POST /api/sync/receive that carry the same
\* batch run at the same time on the central store.  A handler gives way
\* at each await, so the SELECT and the INSERT of one insert-if-absent
\* are two steps.  `rx` holds the two handlers.
\* ---------------------------------------------------------------------
Receivers == {"first", "second"}

PairBatches ==
    { [posts |-> <<P("p1", 1)>>, media |-> <<K("m1", "p1")>>,
       comments |-> <<K("c1", "p1")>>, locationTracks |-> << >>],
      [posts |-> <<P("p1", 1), P("p2", 2)>>, media |-> << >>,
       comments |-> <<K("c2", "p2")>>, locationTracks |-> <<K("t1", "p1")>>] }

TableOf(db, kind) ==
    CASE kind = "posts" -> db.posts
      [] kind = "media" -> db.media
      [] kind = "comments" -> db.comments
      [] kind = "tracks" -> db.tracks

\* SELECT id FROM <table> WHERE id = ?, and for a media row the SELECT of
\* its post as well: the record is passed over when this answers TRUE.
passedOver(db, item) ==
    \/ HasId(TableOf(db, item.kind), item.rec.id)
    \/ item.kind = "media" /\ ~HasId(db.posts, item.rec.post_id)

\* The INSERT alone: id is the PRIMARY KEY of each table.
insertRow(db, item) ==
    IF HasId(TableOf(db, item.kind), item.rec.id) THEN Threw(db)
    ELSE insertOne(db, item, {})

PairHandler(batch) ==
    [pc |-> "group", batch |-> batch, groups |-> << >>, g |-> 1,
     items |-> << >>, k |-> 1, logId |-> 0, counts |-> ZeroCounts,
     threw |-> FALSE, shelterResults |-> << >>, totals |-> ZeroCounts,
     overallSuccess |-> TRUE]

PairInit ==
    /\ center = EmptyDb
    /\ \E batch \in PairBatches : rx = [h \in Receivers |-> PairHandler(batch)]
    /\ edge = EmptyDb
    /\ push = << >>
    /\ pull = Off
    /\ client = Off
    /\ now = 0

PairStep(h, db, handler) ==
    /\ center' = db
    /\ rx' = [rx EXCEPT ![h] = handler]
    /\ UNCHANGED <<edge, push, pull, client, now>>

\* groupDataByShelter
PairGroup(h) ==
    /\ rx[h].pc = "group"
    /\ LET groups == groupDataByShelter(center, rx[h].batch) IN
       PairStep(h, center,
                [rx[h] EXCEPT !.groups = groups,
                              !.pc = IF Len(groups) = 0 THEN "done" ELSE "log"])

\* after an item, or at the start of a group: the next item or the end
afterItem(handler) ==
    [handler EXCEPT !.pc = IF handler.k > Len(handler.items)
                           THEN "close" ELSE "select"]

\* createSyncLog for the group in turn
PairLog(h) ==
    /\ rx[h].pc = "log"
    /\ LET group == rx[h].groups[rx[h].g]
           db1 == createSyncLog(center, "received", group.shelterId)
       IN IF createSyncLogThrows(center, group.shelterId)
          THEN PairStep(h, center,
                  [rx[h] EXCEPT !.logId = 0, !.threw = TRUE, !.pc = "close",
                                !.counts = ZeroCounts])
          ELSE PairStep(h, db1,
                  afterItem([rx[h] EXCEPT !.logId = lastRowId(db1),
                                          !.items = insertOrder(group.data),
                                          !.k = 1, !.counts = ZeroCounts,
                                          !.threw = FALSE]))

\* the SELECT of insert*IfNotExists
PairSelect(h) ==
    /\ rx[h].pc = "select"
    /\ LET item == rx[h].items[rx[h].k] IN
       IF passedOver(center, item)
       THEN PairStep(h, center, afterItem([rx[h] EXCEPT !.k = @ + 1]))
       ELSE PairStep(h, center, [rx[h] EXCEPT !.pc = "insert"])

\* the INSERT of insert*IfNotExists; a throw ends the group
PairInsert(h) ==
    /\ rx[h].pc = "insert"
    /\ LET item == rx[h].items[rx[h].k]
           r == insertRow(center, item)
       IN IF r.threw
          THEN PairStep(h, center, [rx[h] EXCEPT !.threw = TRUE, !.pc = "close"])
          ELSE PairStep(h, r.db,
                  afterItem([rx[h] EXCEPT !.k = @ + 1,
                                          !.counts[item.kind] = @ + 1]))

\* completeSyncLog or failSyncLog, the group's result, the next group
PairClose(h) ==
    /\ rx[h].pc = "close"
    /\ LET me == rx[h]
           group == me.groups[me.g]
           result == [shelterId |-> group.shelterId, success |-> ~me.threw,
                      counts |-> IF me.logId = 0 THEN ZeroCounts ELSE me.counts,
                      logId |-> me.logId]
           db1 == IF me.logId = 0 THEN center
                  ELSE IF me.threw THEN failSyncLog(center, me.logId, "insert")
                  ELSE completeSyncLog(center, me.logId, me.counts)
       IN PairStep(h, db1,
            [me EXCEPT !.shelterResults = Append(@, result),
                       !.totals = IF me.threw THEN @ ELSE AddCounts(@, me.counts),
                       !.overallSuccess = @ /\ ~me.threw,
                       !.g = @ + 1,
                       !.pc = IF me.g = Len(me.groups) THEN "done" ELSE "log"])

PairNext ==
    \E h \in Receivers :
        \/ PairGroup(h)
        \/ PairLog(h)
        \/ PairSelect(h)
        \/ PairInsert(h)
        \/ PairClose(h)

SpecRecvPair == PairInit /\ [][PairNext]_vars

\* C26: when both calls have answered, the store holds one row per id of
\* the batch and neither call reports a failed shelter group.
C26_ConcurrentReceiveBothSucceed ==
    (\A h \in Receivers : rx[h].pc = "done") =>
        /\ \A kind \in {"posts", "media", "comments", "tracks"} :
              \A a \in TableOf(center, kind) : \A b \in TableOf(center, kind) :
                  a.id = b.id => a = b
        /\ \A h \in Receivers :
              /\ rx[h].overallSuccess
              /\ \A i \in 1..Len(rx[h].shelterResults) :
                    rx[h].shelterResults[i].success

\* C27: the success field of a receive response is true exactly when the
\* result of every shelter group has success true.
C27_SuccessIsConjunction ==
    rx.pc = "once" =>
        (rx.resp1.success
            = (\A i \in 1..Len(rx.resp1.shelterResults) :
                  rx.resp1.shelterResults[i].success))

\* The first group failed and the last one succeeded.
C27_Witness ==
    /\ rx.pc = "once"
    /\ Len(rx.resp1.shelterResults) >= 2
    /\ ~rx.resp1.shelterResults[1].success
    /\ rx.resp1.shelterResults[Len(rx.resp1.shelterResults)].success
    /\ ~rx.resp1.success

\* C28: the response has one result per shelter group, and each total is
\* the sum of that count over the results and the number of rows the call
\* inserted.
C28_TotalsAreSums ==
    rx.pc = "once" /\ ~isEmptyBatch(rx.batch) =>
        /\ Len(rx.resp1.shelterResults) = Len(RxGroups)
        /\ rx.resp1.totals = SumCounts(rx.resp1.shelterResults, 1)
        /\ rx.resp1.totals.posts
              = Cardinality(center.posts) - Cardinality(rx.db0.posts)
        /\ rx.resp1.totals.comments
              = Cardinality(center.comments) - Cardinality(rx.db0.comments)
        /\ rx.resp1.totals.tracks
              = Cardinality(center.tracks) - Cardinality(rx.db0.tracks)
        /\ rx.resp1.totals.media
              = Cardinality(center.media) - Cardinality(rx.db0.media)

GroupsWith(groups, kind, r) ==
    { i \in 1..Len(groups) :
        r \in SeqToSet(CASE kind = "posts" -> groups[i].data.posts
                         [] kind = "media" -> groups[i].data.media
                         [] kind = "comments" -> groups[i].data.comments
                         [] kind = "tracks" -> groups[i].data.locationTracks) }

\* The shelter ids a child's post has: those of the batch's posts of that
\* id, or else that of the stored post.
SheltersOfPost(db, data, postId) ==
    LET inBatch == { p.shelter_id : p \in { q \in SeqToSet(data.posts) : q.id = postId } }
    IN IF inBatch # {} THEN inBatch
       ELSE { r.shelter_id : r \in { q \in db.posts : q.id = postId } }

ChildrenPlaced(db, data, groups, kind, s) ==
    \A r \in SeqToSet(s) :
        LET where == GroupsWith(groups, kind, r) IN
        IF SheltersOfPost(db, data, r.post_id) = {} THEN where = {}
        ELSE /\ Cardinality(where) = 1
             /\ \A i \in where :
                   groups[i].shelterId \in SheltersOfPost(db, data, r.post_id)

\* C29: the groups have distinct shelter ids; every post is in the group
\* of its shelter id and in no other; every child whose post is resolved
\* is in one group, that of its post's shelter, the batch's post deciding
\* over the stored one; a child whose post is not resolved is in none.
C29_GroupingPartitions ==
    rx.pc = "once" =>
        LET groups == RxGroups
            data == rx.batch
        IN /\ \A i \in 1..Len(groups) : \A j \in 1..Len(groups) :
                 groups[i].shelterId = groups[j].shelterId => i = j
           /\ \A p \in SeqToSet(data.posts) :
                 \A i \in 1..Len(groups) :
                    (i \in GroupsWith(groups, "posts", p))
                        = (groups[i].shelterId = p.shelter_id)
           /\ \A p \in SeqToSet(data.posts) :
                 \E i \in 1..Len(groups) : groups[i].shelterId = p.shelter_id
           /\ ChildrenPlaced(rx.db0, data, groups, "media", data.media)
           /\ ChildrenPlaced(rx.db0, data, groups, "comments", data.comments)
           /\ ChildrenPlaced(rx.db0, data, groups, "tracks", data.locationTracks)

\* A comment's post is in the batch under one shelter and in the store
\* under another.
C29_Witness ==
    /\ rx.pc = "once"
    /\ \E c \in SeqToSet(rx.batch.comments) :
          /\ \E p \in SeqToSet(rx.batch.posts) : p.id = c.post_id
          /\ \E q \in rx.db0.posts :
                /\ q.id = c.post_id
                /\ \A p \in SeqToSet(rx.batch.posts) :
                      p.id = c.post_id => p.shelter_id # q.shelter_id

NewIds(db, data) ==
    [ posts    |-> Ids(SeqToSet(data.posts)) \ Ids(db.posts),
      media    |-> Ids(SeqToSet(data.media)) \ Ids(db.media),
      comments |-> Ids(SeqToSet(data.comments)) \ Ids(db.comments),
      tracks   |-> Ids(SeqToSet(data.locationTracks)) \ Ids(db.tracks) ]

\* C30: a record whose id is already stored leaves its row as it was, adds
\* nothing to a count, and does not fail its group: every row the store
\* had is still there unchanged, a group's counts are bounded by its
\* records of new ids, and a group made only of stored ids succeeds with
\* counts of zero when its log row can be written.
C30_DuplicateLeftAlone ==
    rx.pc = "once" /\ ~isEmptyBatch(rx.batch) =>
        /\ rx.db0.posts \subseteq center.posts
        /\ rx.db0.media \subseteq center.media
        /\ rx.db0.comments \subseteq center.comments
        /\ rx.db0.tracks \subseteq center.tracks
        /\ \A i \in 1..Len(RxGroups) :
              LET fresh == NewIds(rx.db0, RxGroups[i].data)
                  res == rx.resp1.shelterResults[i]
              IN /\ res.counts.posts <= Cardinality(fresh.posts)
                 /\ res.counts.media <= Cardinality(fresh.media)
                 /\ res.counts.comments <= Cardinality(fresh.comments)
                 /\ res.counts.tracks <= Cardinality(fresh.tracks)
                 /\ (/\ fresh = [posts |-> {}, media |-> {},
                                 comments |-> {}, tracks |-> {}]
                     /\ ~createSyncLogThrows(rx.db0, RxGroups[i].shelterId))
                       => res.success /\ res.counts = ZeroCounts

\* The batch held a post whose id was stored under another shelter, and
\* its group succeeded.
C30_Witness ==
    /\ rx.pc = "once"
    /\ \E p \in SeqToSet(rx.batch.posts) :
          /\ \E q \in rx.db0.posts : q.id = p.id /\ q.shelter_id # p.shelter_id
          /\ \E i \in 1..Len(rx.resp1.shelterResults) :
                /\ rx.resp1.shelterResults[i].shelterId = p.shelter_id
                /\ rx.resp1.shelterResults[i].success
                /\ rx.resp1.shelterResults[i].counts.posts = 0

DistinctIdsIn(s) ==
    \A i \in 1..Len(s) : \A j \in 1..Len(s) : s[i].id = s[j].id => i = j

\* The batch of the scenario: ids that are new to the store and distinct
\* within the batch, every child's post in the batch, and records the
\* store accepts (known shelters, no rejected INSERT).
PlainBatch(db, data, bad) ==
    /\ NewIds(db, data) = RxGroupIds(data)
    /\ DistinctIdsIn(data.posts) /\ DistinctIdsIn(data.comments)
    /\ DistinctIdsIn(data.locationTracks) /\ DistinctIdsIn(data.media)
    /\ \A r \in SeqToSet(data.comments) \cup SeqToSet(data.locationTracks)
                  \cup SeqToSet(data.media) :
          r.post_id \in Ids(SeqToSet(data.posts))
    /\ \A p \in SeqToSet(data.posts) : p.shelter_id \in db.shelters
    /\ bad \cap (Ids(SeqToSet(data.posts)) \cup Ids(SeqToSet(data.comments))
                   \cup Ids(SeqToSet(data.locationTracks))
                   \cup Ids(SeqToSet(data.media))) = {}

CompletedBy(before, after) ==
    { i \in (Len(before.sync_logs) + 1)..Len(after.sync_logs) :
        after.sync_logs[i].status = "completed" }

\* C31: for such a batch the response counts are the numbers of posts,
\* comments and location tracks of the batch, and the call completes as
\* many sync_logs rows as the batch's posts have distinct shelter ids.
C31_PlainBatchCounts ==
    rx.pc = "once" /\ PlainBatch(rx.db0, rx.batch, rx.bad) =>
        /\ rx.resp1.totals.posts = Len(rx.batch.posts)
        /\ rx.resp1.totals.comments = Len(rx.batch.comments)
        /\ rx.resp1.totals.tracks = Len(rx.batch.locationTracks)
        /\ Cardinality(CompletedBy(rx.db0, center))
              = Cardinality({ p.shelter_id : p \in SeqToSet(rx.batch.posts) })

\* Two posts of two shelters and a comment on the first were received by
\* a store without them.
C31_Witness ==
    /\ rx.pc = "once"
    /\ PlainBatch(rx.db0, rx.batch, rx.bad)
    /\ Len(rx.batch.posts) = 2
    /\ Len(rx.batch.comments) = 1
    /\ Cardinality(CompletedBy(rx.db0, center)) = 2

NothingUnsynced(db) ==
    /\ Len(fetchUnsyncedPosts(db)) = 0
    /\ Len(fetchUnsyncedComments(db)) = 0
    /\ Len(fetchUnsyncedLocationTracks(db)) = 0

\* C32: when a push reads the unsynced rows and there are none, that
\* step completes its log with counts of zero and ends the handler with
\* success; the central node is not contacted and no row of the edge
\* changes.
C32_EmptyPushOnlyCompletesLog ==
    [][ \A i \in Pushers :
          (/\ push[i].pc = "fetch"
           /\ push'[i].pc # "fetch"
           /\ push'[i].outcome # "fetch_threw"
           /\ NothingUnsynced(edge))
          => /\ push'[i].pc = "done"
             /\ push'[i].outcome = "empty"
             /\ edge' = completeSyncLog(edge, push[i].logId, ZeroCounts)
             /\ edge'.sync_logs[push[i].logId].counts = ZeroCounts
             /\ Tables(edge') = Tables(edge)
             /\ center' = center ]_vars

\* A push found nothing to send after an earlier push had sent and marked
\* the edge's rows.
C32_Witness ==
    /\ \E i \in Pushers :
          /\ push[i].outcome = "empty"
          /\ edge.sync_logs[push[i].logId].status = "completed"
          /\ edge.sync_logs[push[i].logId].counts = ZeroCounts
    /\ \E i \in Pushers : push[i].outcome = "completed"
    /\ NothingUnsynced(edge)

\* C33: no step of a replication pass changes a row of the posts,
\* comments, location tracks, media or sync_logs tables or the pull cursor
\* of the edge, and none changes the central node; the edge's object store
\* only gains keys of the list.
C33_MediaPassOnlyStoresObjects ==
    [][ /\ Tables(edge') = Tables(edge)
        /\ edge'.sync_logs = edge.sync_logs
        /\ edge'.cursor = edge.cursor
        /\ edge'.shelters = edge.shelters
        /\ center' = center
        /\ edge.bucket \subseteq edge'.bucket
        /\ edge'.bucket \ edge.bucket \subseteq SeqToSet(pull.mediaList) ]_vars

\* A pass returned after storing an object and failing another, on an edge
\* that holds the rows of the list, an open log and a cursor.
C33_Witness ==
    /\ pull.pc = "returned"
    /\ pull.stored # {}
    /\ pull.failed >= 1
    /\ edge = [MediaStore(pull.mediaList) EXCEPT !.bucket = edge.bucket]
    /\ Cardinality(edge.media) >= 2

QueueKeys(ops) == { ops[i].key : i \in 1..Len(ops) }

\* C34: every operation queued so far is in the queue, in memory and in
\* local storage, unless its request has succeeded or the drain loop has
\* dropped it.
C34_NoQueuedOperationLost ==
    \A k \in 1..client.enqueued :
        \/ k \in client.succeeded
        \/ k \in client.loopDropped
        \/ /\ k \in QueueKeys(client.pendingOperations)
           /\ k \in QueueKeys(client.stored)

NewlySynced(before, after) ==
    { r.id : r \in { x \in after : x.is_synced } } \
        { r.id : r \in { x \in before : x.is_synced } }

\* C35: the mark step of a push sets the synced flag of rows it
\* transmitted only, so a row created after the push read the unsynced rows
\* stays unsynced; and the read of a push takes every row that is unsynced
\* at that moment, so a later push sends it.
C35_MarksOnlyWhatItSent ==
    [][ \A i \in Pushers :
          /\ (push[i].pc = "mark" /\ push'[i].pc # "mark") =>
                /\ NewlySynced(edge.posts, edge'.posts) \subseteq SeqIds(push[i].posts)
                /\ NewlySynced(edge.comments, edge'.comments)
                      \subseteq SeqIds(push[i].comments)
                /\ NewlySynced(edge.tracks, edge'.tracks)
                      \subseteq SeqIds(push[i].locationTracks)
          /\ (push[i].pc = "fetch" /\ push'[i].pc = "send") =>
                \A r \in edge.posts \cup edge.comments \cup edge.tracks :
                    ~r.is_synced => r.id \in BatchIds(push'[i]) ]_vars

\* A push sent the first post alone; the second post, created before that
\* push marked its rows, was sent by the next push, and both pushes
\* completed.
C35_Witness ==
    \E i \in Pushers : \E j \in Pushers :
        /\ push[i].outcome = "completed"
        /\ SeqIds(push[i].posts) = {"p1"}
        /\ push[j].outcome = "completed"
        /\ SeqIds(push[j].posts) = {"p2"}
        /\ \A r \in edge.posts : r.is_synced

\* ---------------------------------------------------------------------
\* SpecPullLoop: POST /api/sync/pull/execute called again and again on
\* the edge against a central node that holds a post of the shelter with
\* two media rows and their objects.  `pull` holds the handlers, one
\* here; a handler that has answered is idle again.
\* SpecPullOverlap: the same handler run by two callers, MaxPulls times
\* in all.  The route has no in-flight guard, so the two may overlap.
\* ---------------------------------------------------------------------

\* Rows of sync_logs the model records; a pull that starts when the
\* table holds that many is followed without its row (logId 0).
MaxPullLogs == 2

LoopCallers == {1}

PullCallers == {1, 2}

PullAttempts == Len(edge.sync_logs)

LoopMedia == { Stamp(K("m1", "p1"), 1), Stamp(K("m2", "p1"), 1) }

LoopCenter ==
    [EmptyDb EXCEPT
        !.posts  = { Row(Stamp(P("p1", PullShelter), 1), TRUE) },
        !.media  = { Row(m, TRUE) : m \in LoopMedia },
        !.bucket = Ids(LoopMedia)]

NoPull ==
    [ pc |-> "idle", logId |-> 0, since |-> 0, serverTime |-> 0,
      data |-> << >>, applied |-> ZeroCounts, media |-> << >>,
      mediaToPull |-> << >>, i |-> 1, transfers |-> << >>,
      synced |-> 0, failed |-> 0 ]

LoopInit ==
    /\ edge = EmptyDb
    /\ center = LoopCenter
    /\ pull = [h \in LoopCallers |-> NoPull]
    /\ push = << >>
    /\ rx = Off
    /\ client = Off
    /\ now = 1

LoopTick ==
    /\ now < MaxClock
    /\ now' = now + 1
    /\ UNCHANGED <<edge, center, rx, push, pull, client>>

loopLogOpened(db) ==
    IF Len(db.sync_logs) < MaxPullLogs
    THEN createSyncLog(db, "pull", PullShelter) ELSE db

loopLogCompleted(db, h, counts) ==
    IF h.logId = 0 THEN db ELSE completeSyncLog(db, h.logId, counts)

loopLogFailed(db, h, message) ==
    IF h.logId = 0 THEN db ELSE pullFailed(db, h, message)

\* createSyncLog, getLastPulledAt
LoopStart(h) ==
    /\ pull[h].pc = "idle"
    /\ LET db1 == loopLogOpened(edge) IN
         /\ edge' = db1
         /\ pull' = [pull EXCEPT ![h] =
                [NoPull EXCEPT !.pc = "request",
                    !.logId = IF db1 = edge THEN 0 ELSE lastRowId(db1),
                    !.since = getLastPulledAt(db1)]]
    /\ UNCHANGED <<center, rx, push, client, now>>

\* a failure branch or the outer catch: failSyncLog, answer 500
LoopFails(h, at, message) ==
    /\ pull[h].pc = at
    /\ edge' = loopLogFailed(edge, pull[h], message)
    /\ pull' = [pull EXCEPT ![h] = NoPull]
    /\ UNCHANGED <<center, rx, push, client, now>>

\* GET /api/sync/pull on the central node, whose store does not change
\* here: the four queries and serverTime
LoopRespond(h) ==
    /\ pull[h].pc = "request"
    /\ pull' = [pull EXCEPT ![h] = [@ EXCEPT
          !.pc = "response",
          !.serverTime = now,
          !.data =
            [ posts |-> fetchPostsForPull(center, PullShelter, pull[h].since),
              comments |->
                  fetchCommentsForPull(center, PullShelter, pull[h].since),
              locationTracks |->
                  fetchLocationTracksForPull(center, PullShelter, pull[h].since),
              media |-> fetchMediaForPull(center, PullShelter, pull[h].since) ]]]
    /\ UNCHANGED <<edge, center, rx, push, client, now>>

\* applyPulledData returns; syncMediaFiles is called when the answer
\* carried media rows
LoopApply(h) ==
    /\ pull[h].pc = "response"
    /\ LET r == applyPulledData(edge, pull[h].data, {}) IN
         /\ r.success
         /\ edge' = r.db
         /\ pull' = [pull EXCEPT ![h] = [@ EXCEPT
                !.pc = IF Len(pull[h].data.media) > 0 THEN "media" ELSE "cursor",
                !.applied = r.counts,
                !.media = [k \in 1..Len(pull[h].data.media) |->
                              pull[h].data.media[k].id],
                !.data = << >>]]
    /\ UNCHANGED <<center, rx, push, client, now>>

\* syncMediaFiles, the filter: the rows whose object the edge lacks
LoopMediaFilter(h) ==
    /\ pull[h].pc = "media"
    /\ LET list == SelectSeq(pull[h].media,
                             LAMBDA key : needsPull(edge.bucket, key))
       IN pull' = [pull EXCEPT ![h] = [@ EXCEPT
              !.mediaToPull = list,
              !.pc = IF Len(list) = 0 THEN "cursor" ELSE "batch"]]
    /\ UNCHANGED <<edge, center, rx, push, client, now>>

LoopBatchStart(h) ==
    /\ pull[h].pc = "batch"
    /\ pull' = [pull EXCEPT ![h] = [@ EXCEPT
          !.pc = "await",
          !.transfers =
              [key \in SeqToSet(sliceBatch(pull[h].mediaToPull, pull[h].i))
                  |-> "downloading"]]]
    /\ UNCHANGED <<edge, center, rx, push, client, now>>

\* downloadAndUploadMedia resolves: the object is in the edge's store
LoopTransferDone(h, key) ==
    /\ pull[h].pc = "await"
    /\ key \in DOMAIN pull[h].transfers
    /\ pull[h].transfers[key] = "downloading"
    /\ key \in center.bucket
    /\ edge' = [edge EXCEPT !.bucket = @ \cup {key}]
    /\ pull' = [pull EXCEPT ![h] = [@ EXCEPT !.transfers[key] = "fulfilled"]]
    /\ UNCHANGED <<center, rx, push, client, now>>

\* downloadAndUploadMedia rejects: the fetch, its status or the put
LoopTransferFails(h, key) ==
    /\ pull[h].pc = "await"
    /\ key \in DOMAIN pull[h].transfers
    /\ pull[h].transfers[key] = "downloading"
    /\ pull' = [pull EXCEPT ![h] = [@ EXCEPT !.transfers[key] = "rejected"]]
    /\ UNCHANGED <<edge, center, rx, push, client, now>>

LoopBatchSettled(h) ==
    /\ pull[h].pc = "await"
    /\ \A key \in DOMAIN pull[h].transfers : pull[h].transfers[key] \in Settled
    /\ LET t == tally(pull[h])
           next == pull[h].i + CONCURRENCY
       IN pull' = [pull EXCEPT ![h] = [t EXCEPT
              !.i = next, !.transfers = << >>,
              !.pc = IF next > Len(pull[h].mediaToPull)
                     THEN "cursor" ELSE "batch"]]
    /\ UNCHANGED <<edge, center, rx, push, client, now>>

\* setLastPulledAt(db, scopeKey, pullData.serverTime): whatever the media
\* pass counted
LoopSetCursor(h) ==
    /\ pull[h].pc = "cursor"
    /\ edge' = advanceCursor(edge, pull[h])
    /\ pull' = [pull EXCEPT ![h] = [@ EXCEPT !.pc = "complete"]]
    /\ UNCHANGED <<center, rx, push, client, now>>

\* completeSyncLog with the applied counts and mediaSynced; the answer
LoopComplete(h) ==
    /\ pull[h].pc = "complete"
    /\ edge' = loopLogCompleted(edge, pull[h],
                  [pull[h].applied EXCEPT !.media = pull[h].synced])
    /\ pull' = [pull EXCEPT ![h] = NoPull]
    /\ UNCHANGED <<center, rx, push, client, now>>

LoopNext ==
    \/ LoopTick
    \/ \E h \in LoopCallers :
          \/ LoopStart(h)
          \/ LoopFails(h, "request", "fetch failed")
          \/ LoopRespond(h)
          \/ LoopFails(h, "response", "apply")
          \/ LoopApply(h)
          \/ LoopMediaFilter(h)
          \/ LoopBatchStart(h)
          \/ LoopBatchSettled(h)
          \/ LoopFails(h, "cursor", "cursor")
          \/ LoopSetCursor(h)
          \/ LoopComplete(h)
          \/ \E key \in Ids(LoopMedia) :
                \/ LoopTransferDone(h, key)
                \/ LoopTransferFails(h, key)

SpecPullLoop == LoopInit /\ [][LoopNext]_vars

\* Pulls keep running: the callers go on sending requests and every step
\* the handler takes on its own is taken.  The central node keeps
\* serving: a request, an apply step, a cursor write or a transfer that is
\* tried again and again succeeds at some time.
LoopFairness(h) ==
    /\ WF_vars(LoopStart(h))
    /\ SF_vars(LoopRespond(h))
    /\ SF_vars(LoopApply(h))
    /\ WF_vars(LoopMediaFilter(h))
    /\ WF_vars(LoopBatchStart(h))
    /\ \A key \in Ids(LoopMedia) : SF_vars(LoopTransferDone(h, key))
    /\ WF_vars(LoopBatchSettled(h))
    /\ SF_vars(LoopSetCursor(h))
    /\ WF_vars(LoopComplete(h))

SpecPullLoopFair ==
    LoopInit /\ [][LoopNext]_vars /\ \A h \in LoopCallers : LoopFairness(h)

OverlapInit ==
    /\ edge = EmptyDb
    /\ center = LoopCenter
    /\ pull = [h \in PullCallers |-> NoPull]
    /\ push = << >>
    /\ rx = Off
    /\ client = Off
    /\ now = 1

\* a caller sends its request, whatever the other handler is doing
OverlapStart(h) ==
    /\ PullAttempts < MaxPulls
    /\ LoopStart(h)

OverlapNext ==
    \/ LoopTick
    \/ \E h \in PullCallers :
          \/ OverlapStart(h)
          \/ LoopFails(h, "request", "fetch failed")
          \/ LoopRespond(h)
          \/ LoopFails(h, "response", "apply")
          \/ LoopApply(h)
          \/ LoopMediaFilter(h)
          \/ LoopBatchStart(h)
          \/ LoopBatchSettled(h)
          \/ LoopFails(h, "cursor", "cursor")
          \/ LoopSetCursor(h)
          \/ LoopComplete(h)
          \/ \E key \in Ids(LoopMedia) :
                \/ LoopTransferDone(h, key)
                \/ LoopTransferFails(h, key)

SpecPullOverlap == OverlapInit /\ [][OverlapNext]_vars

\* C37: the stored cursor of the scope never moves backward, also when
\* pull executions overlap.
C37_OverlapKeepsCursorForward ==
    [][ edge'.cursor >= edge.cursor ]_vars

\* C36: every media row a pull has stored at the edge has its object in
\* the edge's object store at some later time, when pulls keep running and
\* the central node keeps serving.
C36_DeliveredMediaIsFetched ==
    \A key \in Ids(LoopMedia) :
        HasId(edge.media, key) ~> (key \in edge.bucket)

\* ---------------------------------------------------------------------
\* SpecMediaPush: POST /api/sync/media on the edge, the media-only push.
\* The edge holds a post with up to MaxMedia media rows, some of them
\* synced already, and some of their objects; a row's file_path is
\* modelled by its id.  `push` holds the handler.
\* ---------------------------------------------------------------------
fetchUnsyncedMedia(db) == fetchUnsynced(db.media)

markMediaAsSynced(db, mediaIds, t) ==
    [db EXCEPT !.media = markAsSynced(@, mediaIds, t)]

MediaPushRows ==
    { { Stamp(K(KeyOf(n), "p1"), n) : n \in 1..len } : len \in 0..MaxMedia }

IdleMediaPush ==
    [ pc |-> "idle", outcome |-> "", mediaItems |-> << >>, k |-> 1,
      syncedIds |-> << >>, errors |-> << >>,
      read |-> {}, accepted |-> {}, syncedBefore |-> {},
      response |-> << >> ]

MediaPushInit ==
    /\ \E rows \in MediaPushRows :
         \E synced \in SUBSET Ids(rows) :
           \E present \in SUBSET Ids(rows) :
             /\ edge = [EmptyDb EXCEPT
                          !.posts = { Row(P("p1", 1), FALSE) },
                          !.media = { Row(r, r.id \in synced) : r \in rows },
                          !.bucket = present]
             /\ push = [IdleMediaPush EXCEPT !.syncedBefore = synced]
    /\ center = EmptyDb
    /\ rx = Off
    /\ pull = Off
    /\ client = Off
    /\ now = 1

\* the route's outer catch: answer 500
MediaPushThrows(at) ==
    /\ push.pc = at
    /\ push' = [push EXCEPT !.pc = "done", !.outcome = "threw"]
    /\ UNCHANGED <<edge, center, rx, pull, client, now>>

\* fetchUnsyncedMedia and the early return when there is none
MediaPushStart ==
    /\ push.pc = "idle"
    /\ LET items == fetchUnsyncedMedia(edge) IN
         push' = IF Len(items) = 0
                 THEN [push EXCEPT !.pc = "done", !.outcome = "answered",
                          !.response = [success |-> TRUE, total |-> 0,
                                        mediaSynced |-> 0, failed |-> 0]]
                 ELSE [push EXCEPT !.pc = "get", !.mediaItems = items]
    /\ UNCHANGED <<edge, center, rx, pull, client, now>>

\* the loop goes on to its next item, or ends
nextItem(h) ==
    [h EXCEPT !.k = @ + 1,
              !.pc = IF h.k + 1 > Len(h.mediaItems) THEN "mark" ELSE "get"]

\* Faulty variant: the first failure ends the loop.
mediaItemFailedEndsLoop(h, id, message) ==
    [h EXCEPT !.errors = Append(@, [mediaId |-> id, error |-> message]),
              !.k = Len(h.mediaItems) + 1,
              !.pc = "mark"]

\* errors.push({ mediaId, filePath, error }); the loop continues
mediaItemFailed(h, id, message) ==
    nextItem([h EXCEPT
                !.errors = Append(@, [mediaId |-> id, error |-> message])])

\* bucket.get(media.file_path): the object, or null
MediaPushGet ==
    /\ push.pc = "get"
    /\ LET id == push.mediaItems[push.k].id IN
         push' = IF id \in edge.bucket
                 THEN [push EXCEPT !.pc = "post", !.read = @ \cup {id}]
                 ELSE mediaItemFailed(push, id, "local R2 object not found")
    /\ UNCHANGED <<edge, center, rx, pull, client, now>>

\* bucket.get or object.arrayBuffer rejects: the item's catch
MediaPushGetThrows ==
    /\ push.pc = "get"
    /\ push' = mediaItemFailed(push, push.mediaItems[push.k].id, "get failed")
    /\ UNCHANGED <<edge, center, rx, pull, client, now>>

\* POST /api/sync/media/receive stored the object and answered 200
MediaPushAccepted ==
    /\ push.pc = "post"
    /\ LET id == push.mediaItems[push.k].id IN
         /\ center' = [center EXCEPT !.bucket = @ \cup {id}]
         /\ push' = nextItem([push EXCEPT !.syncedIds = Append(@, id),
                                          !.accepted = @ \cup {id}])
    /\ UNCHANGED <<edge, rx, pull, client, now>>

\* the receive route answered 400 or 500, or fetch rejected (the object
\* may have been stored when only the answer was lost)
MediaPushRejected ==
    /\ push.pc = "post"
    /\ LET id == push.mediaItems[push.k].id IN
         /\ \/ center' = center
            \/ center' = [center EXCEPT !.bucket = @ \cup {id}]
         /\ push' = mediaItemFailed(push, id, "receive failed")
    /\ UNCHANGED <<edge, rx, pull, client, now>>

\* markMediaAsSynced when an item was accepted, then the answer
MediaPushMark ==
    /\ push.pc = "mark"
    /\ edge' = IF Len(push.syncedIds) > 0
               THEN markMediaAsSynced(edge, SeqToSet(push.syncedIds), now)
               ELSE edge
    /\ push' = [push EXCEPT !.pc = "done", !.outcome = "answered",
                  !.response = [success |-> Len(push.errors) = 0,
                                total |-> Len(push.mediaItems),
                                mediaSynced |-> Len(push.syncedIds),
                                failed |-> Len(push.errors)]]
    /\ UNCHANGED <<center, rx, pull, client, now>>

MediaPushNext ==
    \/ MediaPushStart
    \/ MediaPushThrows("idle")
    \/ MediaPushGet
    \/ MediaPushGetThrows
    \/ MediaPushAccepted
    \/ MediaPushRejected
    \/ MediaPushMark
    \/ MediaPushThrows("mark")

SpecMediaPush == MediaPushInit /\ [][MediaPushNext]_vars

\* C38: a media row whose synced flag the media-only push set had its
\* object read at the edge and accepted by the central node with a success
\* status; and when the push answers, every unsynced row it read was taken
\* up, as synced or as failed, so that total = mediaSynced + failed, and
\* success is true exactly when failed is 0.
C38_MediaPushMarksAcceptedOnly ==
    /\ \A r \in edge.media :
          r.is_synced /\ r.id \notin push.syncedBefore
              => /\ r.id \in push.read
                 /\ r.id \in push.accepted
                 /\ r.id \in center.bucket
    /\ push.outcome = "answered" =>
          /\ push.response.total = Len(push.mediaItems)
          /\ push.response.total
                = push.response.mediaSynced + push.response.failed
          /\ push.response.success = (push.response.failed = 0)
          /\ SeqIds(push.mediaItems)
                = SeqToSet(push.syncedIds)
                    \cup { push.errors[n].mediaId : n \in 1..Len(push.errors) }
          /\ SeqToSet(push.syncedIds) = push.accepted

\* The push answered after its first item failed and a later one was
\* accepted and marked.
C38_Witness ==
    /\ push.outcome = "answered"
    /\ push.response.failed >= 1
    /\ push.response.mediaSynced >= 1
    /\ push.mediaItems[1].id \notin push.accepted
    /\ \E r \in edge.media : r.is_synced /\ r.id \in push.accepted
    /\ ~push.response.success

\* C39: syncInProgress is set exactly while a drain is awaiting a
\* request and pullInProgress exactly while a pull request is awaited:
\* once the drain or the pull has ended, however it ended, its flag is
\* unset and the next one is not turned away.
C39_FlagsResetAtEnd ==
    /\ client.syncInProgress = (client.loop.pc = "call")
    /\ client.pullInProgress = (client.pulls > 0)
    /\ client.pulls <= 1

\* A drain ended with a failed request and a pull has settled; both flags
\* are unset.
C39_Witness ==
    /\ client.lastDrain = "finished"
    /\ client.loop.failed # {}
    /\ ~client.syncInProgress
    /\ client.lastPull = "settled"
    /\ ~client.pullInProgress

====
